---- MODULE Spec2Model ----
(***************************************************************************)
(* Budget/limit tracking and reporting engine of nocontrole-back.          *)
(*                                                                         *)
(* Money is kept in integer cents once it has passed a schema setter       *)
(* (Math.round(v * 100) / 100); request amounts are given in mils (tenths  *)
(* of a cent) so that the setter's rounding is visible.  Percentages are   *)
(* exact rationals (the IEEE-754 noise of the JavaScript division is not   *)
(* modelled).  A Date is a record [day, ms]: day counts local calendar     *)
(* days from 2024-01-01 and ms the milliseconds within the day.            *)
(***************************************************************************)
EXTENDS Integers, Sequences, FiniteSets, TLC

VARIABLES
    limits,        \* the Limit collection: _id -> document
    transactions,  \* the Transaction collection: _id -> document
    now,           \* the reading of the clock (new Date())
    apply,         \* the running Limit.updateFromTransactions calls
    rst,           \* a caller holding a Limit document and calling resetar()
    res,           \* the last request served and its HTTP response
    evo,           \* a running ReportService.getMonthlyEvolution call
    users          \* the User collection: _id -> document

vars == <<limits, transactions, now, apply, rst, res, evo, users>>

(***************************************************************************)
(* Bounds of the model.                                                    *)
(***************************************************************************)
MaxLimits == 3      \* documents the Limit collection may hold
MaxTx     == 2      \* documents the Transaction collection may hold
MaxDay    == 75     \* last day the clock reaches
MaxMs     == 1      \* last millisecond of a day the clock reaches
MaxGasto  == 8000   \* an accrual starts only up to this accrued amount (cents)

Null == "null"

Users == {"u1", "u2"}

(***************************************************************************)
(* Dates.                                                                  *)
(***************************************************************************)
Date(d, m) == [day |-> d, ms |-> m]

\* the value of a Date field that holds null
NullDate == Date(-1, 0)

\* a <= b on Dates (the $lte of a query, the <= of JavaScript)
DateLte(a, b) == a.day < b.day \/ (a.day = b.day /\ a.ms <= b.ms)

DateLt(a, b) == a.day < b.day \/ (a.day = b.day /\ a.ms < b.ms)

IsLeap(y) == (y % 4 = 0 /\ y % 100 # 0) \/ y % 400 = 0

LeapsBefore(y) == ((y - 1) \div 4) - ((y - 1) \div 100) + ((y - 1) \div 400)

\* day number of January 1st of year y
DayFromYear(y) == 365 * (y - 2024) + LeapsBefore(y) - LeapsBefore(2024)

\* m is a JavaScript month, 0..11
DaysInMonth(y, m) ==
    IF m = 1 THEN (IF IsLeap(y) THEN 29 ELSE 28)
    ELSE IF m \in {3, 5, 8, 10} THEN 30 ELSE 31

RECURSIVE DaysBeforeMonth(_, _)
DaysBeforeMonth(y, m) ==
    IF m = 0 THEN 0 ELSE DaysBeforeMonth(y, m - 1) + DaysInMonth(y, m - 1)

\* ECMAScript MakeDay: month and date overflow into the following months
MakeDay(y, m, d) ==
    LET yy == y + (m \div 12)
        mm == m % 12
    IN  DayFromYear(yy) + DaysBeforeMonth(yy, mm) + d - 1

Years == 2023 .. 2027

getFullYear(n) == CHOOSE y \in Years : DayFromYear(y) <= n /\ n < DayFromYear(y + 1)

getMonth(n) ==
    LET y == getFullYear(n)
    IN  CHOOSE m \in 0..11 :
            /\ MakeDay(y, m, 1) <= n
            /\ n < MakeDay(y, m, 1) + DaysInMonth(y, m)

getDate(n) == n - MakeDay(getFullYear(n), getMonth(n), 1) + 1

(***************************************************************************)
(* Money and percentages.                                                  *)
(***************************************************************************)
Abs(x) == IF x < 0 THEN 0 - x ELSE x

Min(a, b) == IF a <= b THEN a ELSE b

Max(a, b) == IF a >= b THEN a ELSE b

\* Math.round of the rational n / d (d > 0): the nearest integer, halves up
MathRound(n, d) == (2 * n + d) \div (2 * d)

\* a setter that drops the digits after the second decimal
TruncCents(mils) == mils \div 10

\* the schema setter v => Math.round(v * 100) / 100, from mils to cents
RoundCents(mils) == MathRound(mils, 10)

\* a percentage as the exact rational num / den, den > 0
Pct(n, d) == [num |-> n, den |-> d]

\* p >= k for a percentage p and an integer k
PctGe(p, k) == p.num >= k * p.den

(***************************************************************************)
(* Limit documents (models/Limit.js).                                      *)
(***************************************************************************)
LimitTipos == {"categoria", "cartao", "geral", "periodo"}

Periodos == {"diario", "semanal", "mensal", "anual"}

\* percentualUsado without its Math.min(..., 100)
percentualSemTeto(l) ==
    IF l.valorLimite = 0 THEN Pct(0, 1)
    ELSE Pct(l.valorGasto * 100, l.valorLimite)

\* virtual percentualUsado
percentualUsado(l) ==
    IF l.valorLimite = 0 THEN Pct(0, 1)
    ELSE Pct(Min(l.valorGasto * 100, 100 * l.valorLimite), l.valorLimite)

\* virtual valorRestante
valorRestante(l) == Max(0, l.valorLimite - l.valorGasto)

\* virtual excedido
excedido(l) == l.valorGasto > l.valorLimite

\* status reading the percentage without the test for a zero valorLimite
statusSemZero(l) ==
    LET percentual == Pct(Min(l.valorGasto * 100, 100 * l.valorLimite), l.valorLimite)
    IN  IF PctGe(percentual, 100) THEN "excedido"
        ELSE IF PctGe(percentual, 90) THEN "critico"
        ELSE IF PctGe(percentual, 75) THEN "alerta"
        ELSE IF PctGe(percentual, 50) THEN "atencao"
        ELSE "normal"

\* status with its tests read from the lowest threshold up
statusLowToHigh(l) ==
    LET percentual == percentualUsado(l)
    IN  IF PctGe(percentual, 50) THEN "atencao"
        ELSE IF PctGe(percentual, 75) THEN "alerta"
        ELSE IF PctGe(percentual, 90) THEN "critico"
        ELSE IF PctGe(percentual, 100) THEN "excedido"
        ELSE "normal"

\* virtual status
status(l) ==
    LET percentual == percentualUsado(l)
    IN  IF PctGe(percentual, 100) THEN "excedido"
        ELSE IF PctGe(percentual, 90) THEN "critico"
        ELSE IF PctGe(percentual, 75) THEN "alerta"
        ELSE IF PctGe(percentual, 50) THEN "atencao"
        ELSE "normal"

\* proximoResetCalculado without the period's offset
proximoResetSemAvanco(l) == l.ultimoReset

\* virtual proximoResetCalculado: setDate / setMonth / setFullYear on a copy
\* of ultimoReset; the time of day is kept
proximoResetCalculado(l) ==
    LET n == l.ultimoReset.day
        y == getFullYear(n)
        m == getMonth(n)
        d == getDate(n)
    IN  CASE l.periodo = "diario"  -> Date(MakeDay(y, m, d + 1), l.ultimoReset.ms)
          [] l.periodo = "semanal" -> Date(MakeDay(y, m, d + 7), l.ultimoReset.ms)
          [] l.periodo = "mensal"  -> Date(MakeDay(y, m + 1, d), l.ultimoReset.ms)
          [] l.periodo = "anual"   -> Date(MakeDay(y + 1, m, d), l.ultimoReset.ms)

\* pre('save'): synchronise categoria/categoriaId and cartao/cartaoId, then
\* store the computed next reset
preSave(l) ==
    LET a == IF l.categoria # Null /\ l.categoriaId = Null
                THEN [l EXCEPT !.categoriaId = l.categoria]
             ELSE IF l.categoriaId # Null /\ l.categoria = Null
                THEN [l EXCEPT !.categoria = l.categoriaId]
             ELSE l
        b == IF a.cartao # Null /\ a.cartaoId = Null
                THEN [a EXCEPT !.cartaoId = a.cartao]
             ELSE IF a.cartaoId # Null /\ a.cartao = Null
                THEN [a EXCEPT !.cartao = a.cartaoId]
             ELSE a
    IN  [b EXCEPT !.proximoReset = proximoResetCalculado(b)]

\* the schema's validators, run by save() before the pre('save') hook:
\* user, nome, tipo, valorLimite and periodo are required, the two amounts
\* have min 0
validates(l) ==
    /\ l.user # Null
    /\ l.nome # Null
    /\ l.tipo \in LimitTipos
    /\ l.periodo \in Periodos
    /\ l.valorLimite >= 0
    /\ l.valorGasto >= 0

\* what save() leaves in the collection: the paths of the document that
\* differ from what was loaded are $set on the stored document
stored(old, loaded, doc) ==
    [f \in DOMAIN old |-> IF doc[f] # loaded[f] THEN doc[f] ELSE old[f]]

\* a document as the schema's defaults make it
LimitDoc(user, nome, tipo, valorLimite, periodo, categoria, cartao, ultimoReset) ==
    [ user         |-> user,
      nome         |-> nome,
      tipo         |-> tipo,
      valorLimite  |-> valorLimite,
      valorGasto   |-> 0,
      periodo      |-> periodo,
      categoria    |-> categoria,
      categoriaId  |-> categoria,
      cartao       |-> cartao,
      cartaoId     |-> cartao,
      ativo        |-> TRUE,
      ultimoReset  |-> ultimoReset,
      proximoReset |-> NullDate ]

\* Limit.findToReset()
findToReset(agora) ==
    { id \in DOMAIN limits :
        /\ limits[id].ativo
        /\ limits[id].proximoReset # NullDate
        /\ DateLte(limits[id].proximoReset, agora) }

\* the filter of Limit.updateFromTransactions
applies(l, userId, categoriaId, cartaoId) ==
    /\ l.user = userId
    /\ l.ativo
    /\ \/ l.tipo = "geral"
       \/ l.tipo = "categoria" /\ l.categoriaId = categoriaId
       \/ l.tipo = "cartao" /\ l.cartaoId = cartaoId

(***************************************************************************)
(* Categories and cards.  The category collection is not written by the    *)
(* operations modelled here.                                               *)
(***************************************************************************)
Categories ==
    [ c1 |-> [user |-> "u1", nome |-> "Alimentacao", tipo |-> "despesa"],
      c2 |-> [user |-> "u1", nome |-> "Salario",     tipo |-> "receita"],
      c3 |-> [user |-> "u2", nome |-> "Alimentacao", tipo |-> "despesa"] ]

CategoryIds == DOMAIN Categories

\* the natural order of the category collection
CategoryOrder == <<"c1", "c2", "c3">>

CardIds == {"k1"}

\* the cards of the Card collection, all active: one without a limit and one
\* with a limit of 1000.00
Cards ==
    [ k1 |-> [user |-> "u1", limite |-> 0,      saldoAtual |-> 0,     ativo |-> TRUE],
      k2 |-> [user |-> "u1", limite |-> 100000, saldoAtual |-> 25000, ativo |-> TRUE] ]

(***************************************************************************)
(* Limit.updateFromTransactions(userId, categoriaId, cartaoId, valor):     *)
(* one find, then for each document found valorGasto += Math.abs(valor)    *)
(* and an awaited save().  valor is given in mils.                         *)
(***************************************************************************)
Procs == {1, 2}

IdleApply ==
    [pc |-> "idle", userId |-> Null, categoriaId |-> Null, cartaoId |-> Null,
     valor |-> 0, found |-> <<>>, i |-> 0]

RECURSIVE SeqOfIds(_)
\* the documents of a query in natural (insertion) order
SeqOfIds(ids) ==
    IF ids = {} THEN <<>>
    ELSE LET m == CHOOSE x \in ids : \A y \in ids : x <= y
         IN  <<m>> \o SeqOfIds(ids \ {m})

\* the accrued amount after `limit.valorGasto += Math.abs(valor)`: the getter
\* and the setter round to cents
gastoMais(l, valor) == RoundCents(l.valorGasto * 10 + Abs(valor))

\* the calls explored: (userId, categoriaId, cartaoId, valor)
ApplyInputs ==
    { <<"u1", "c1", "k1", 80000>>,
      <<"u1", Null, Null, -80004>>,
      <<"u2", "c1", Null, 80000>> }

ApplyFind(p, userId, categoriaId, cartaoId, valor) ==
    /\ apply[p].pc = "idle"
    /\ LET ids   == { id \in DOMAIN limits :
                        applies(limits[id], userId, categoriaId, cartaoId) }
           order == SeqOfIds(ids)
           found == [k \in 1..Len(order) |->
                        [id |-> order[k], doc |-> limits[order[k]]]]
       IN  /\ \A id \in ids : limits[id].valorGasto <= MaxGasto
           /\ apply' = [apply EXCEPT ![p] =
                  [pc |-> IF found = <<>> THEN "done" ELSE "saving",
                   userId |-> userId, categoriaId |-> categoriaId,
                   cartaoId |-> cartaoId, valor |-> valor,
                   found |-> found, i |-> 1]]
    /\ UNCHANGED <<limits, transactions, now, rst, res, evo, users>>

\* one pass of the loop body: the document in memory is changed and saved;
\* a rejected save() throws out of the loop
ApplySave(p) ==
    /\ apply[p].pc = "saving"
    /\ LET a      == apply[p]
           id     == a.found[a.i].id
           loaded == a.found[a.i].doc
           doc    == [loaded EXCEPT !.valorGasto = gastoMais(loaded, a.valor)]
       IN  IF validates(doc) /\ id \in DOMAIN limits
           THEN /\ limits' = [limits EXCEPT
                       ![id] = stored(limits[id], loaded, preSave(doc))]
                /\ apply' = [apply EXCEPT
                       ![p].i = a.i + 1,
                       ![p].pc = IF a.i = Len(a.found) THEN "done" ELSE "saving"]
           ELSE /\ apply' = [apply EXCEPT ![p].pc = "failed"]
                /\ UNCHANGED limits
    /\ UNCHANGED <<transactions, now, rst, res, evo, users>>

ApplyReturn(p) ==
    /\ apply[p].pc \in {"done", "failed"}
    /\ apply' = [apply EXCEPT ![p] = IdleApply]
    /\ UNCHANGED <<limits, transactions, now, rst, res, evo, users>>

(***************************************************************************)
(* A caller that loads a limit and calls resetar() on it: the three        *)
(* assignments, then save().                                               *)
(***************************************************************************)
MaxCalls == 2
MaxSeconds == 1
MaxSessions == 3
MaxAccrued == 210     \* cents a limit of SpecStatus accrues before it stops

IdleReset == [pc |-> "idle", id |-> 0, calls |-> 0]

ResetLoad(id) ==
    /\ rst.pc = "idle"
    /\ id \in DOMAIN limits
    /\ rst' = [pc |-> "loaded", id |-> id, calls |-> 0,
               loaded |-> limits[id], doc |-> limits[id]]
    /\ UNCHANGED <<limits, transactions, now, apply, res, evo, users>>

\* resetar() with an earlier date for ultimoReset than the clock's
resetarAtrasado(doc, agora) ==
    LET a == [doc EXCEPT !.valorGasto = 0,
                         !.ultimoReset = Date(agora.day - 1, agora.ms)]
    IN  [a EXCEPT !.proximoReset = proximoResetCalculado(a)]

\* the assignments of resetar()
resetar(doc, agora) ==
    LET a == [doc EXCEPT !.valorGasto = 0, !.ultimoReset = agora]
    IN  [a EXCEPT !.proximoReset = proximoResetCalculado(a)]

Resetar ==
    /\ rst.pc = "loaded"
    /\ rst.calls < MaxCalls
    /\ rst' = [rst EXCEPT !.doc = resetar(rst.doc, now),
                          !.pc = "saving",
                          !.calls = rst.calls + 1]
    /\ UNCHANGED <<limits, transactions, now, apply, res, evo, users>>

\* the save() of resetar(): a rejected save leaves the collection as it is
ResetSave ==
    /\ rst.pc = "saving"
    /\ IF validates(rst.doc) /\ rst.id \in DOMAIN limits
       THEN /\ limits' = [limits EXCEPT
                   ![rst.id] = stored(limits[rst.id], rst.loaded, preSave(rst.doc))]
            /\ rst' = [rst EXCEPT !.pc = "loaded",
                                  !.doc = preSave(rst.doc),
                                  !.loaded = preSave(rst.doc)]
       ELSE /\ rst' = [rst EXCEPT !.pc = "loaded"]
            /\ UNCHANGED limits
    /\ UNCHANGED <<transactions, now, apply, res, evo, users>>

ResetReturn ==
    /\ rst.pc = "loaded"
    /\ rst' = IdleReset
    /\ UNCHANGED <<limits, transactions, now, apply, res, evo, users>>

\* a sweep: Limit.findToReset() is read, its documents are held
SweepFind ==
    /\ rst.pc = "idle"
    /\ LET order == SeqOfIds(findToReset(now))
           due   == [k \in 1..Len(order) |-> [id |-> order[k], doc |-> limits[order[k]]]]
       IN  rst' = [pc |-> IF due = <<>> THEN "swept" ELSE "sweeping",
                   id |-> 0, calls |-> 0, at |-> now, due |-> due, i |-> 1]
    /\ UNCHANGED <<limits, transactions, now, apply, res, evo, users>>

\* the sweep calls resetar() on the next document it holds and awaits its
\* save(); a rejected save throws out of the sweep
SweepReset ==
    /\ rst.pc = "sweeping"
    /\ LET id     == rst.due[rst.i].id
           loaded == rst.due[rst.i].doc
           doc    == resetar(loaded, now)
       IN  IF validates(doc) /\ id \in DOMAIN limits
           THEN /\ limits' = [limits EXCEPT ![id] = stored(limits[id], loaded, preSave(doc))]
                /\ rst' = [rst EXCEPT
                       !.i = rst.i + 1,
                       !.pc = IF rst.i = Len(rst.due) THEN "swept" ELSE "sweeping"]
           ELSE /\ rst' = [rst EXCEPT !.pc = "failed"]
                /\ UNCHANGED limits
    /\ UNCHANGED <<transactions, now, apply, res, evo, users>>

SweepReturn ==
    /\ rst.pc \in {"swept", "failed"}
    /\ rst' = IdleReset
    /\ UNCHANGED <<limits, transactions, now, apply, res, evo, users>>

\* the amounts given to adicionarGasto, in mils
GastoInputs == {50000, 0 - 80000, 0 - 4}

\* adicionarGasto(valor) on the limit id as it is stored: valorGasto += valor
\* through the getter and the setter, then save(), which rejects what the
\* validators reject and leaves the collection as it is
AdicionarGasto(id, valor) ==
    /\ id \in DOMAIN limits
    /\ limits[id].valorGasto <= MaxGasto
    /\ LET loaded == limits[id]
           doc    == [loaded EXCEPT !.valorGasto = RoundCents(loaded.valorGasto * 10 + valor)]
       IN  IF validates(doc)
           THEN /\ limits' = [limits EXCEPT ![id] = stored(limits[id], loaded, preSave(doc))]
                /\ res' = [op |-> "adicionarGasto", status |-> 200, id |-> id, valor |-> valor]
           ELSE /\ res' = [op |-> "adicionarGasto", status |-> 500, id |-> id, valor |-> valor]
                /\ UNCHANGED limits
    /\ UNCHANGED <<transactions, now, apply, rst, evo, users>>

(***************************************************************************)
(* The clock.                                                              *)
(***************************************************************************)
DaySteps == {32}

TickMs ==
    /\ now.ms < MaxMs
    /\ now' = Date(now.day, now.ms + 1)
    /\ UNCHANGED <<limits, transactions, apply, rst, res, evo, users>>

TickDays(n) ==
    /\ now.day + n <= MaxDay
    /\ now' = Date(now.day + n, 0)
    /\ UNCHANGED <<limits, transactions, apply, rst, res, evo, users>>

(***************************************************************************)
(* Transactions (models/Transaction.js, repositories/transactionRepository)*)
(***************************************************************************)
MsLastSecond == 86399000   \* 23:59:59.000 as milliseconds of the day

TxStatus == {"pendente", "confirmada", "cancelada"}

\* the requests explored: (userId, tipo, valor, data, categoriaId, status),
\* dated now or five weeks ago
TxInputs ==
    { <<"u1", "despesa", 150000, now, "c1", "confirmada">>,
      <<"u1", "despesa", 200000, now, "c1", "confirmada">>,
      <<"u1", "despesa", 200004, now, "c1", "pendente">>,
      <<"u1", "receita", 200000, now, "c1", "confirmada">>,
      <<"u1", "despesa", 150000, Date(now.day - 35, 0), "c1", "confirmada">>,
      <<"u2", "despesa", 200000, now, "c1", "confirmada">> }

NextId(ids) == IF ids = {} THEN 1 ELSE (CHOOSE m \in ids : \A x \in ids : x <= m) + 1

\* TransactionController.createTransaction: the body's categoriaId becomes
\* categoria, the document is saved (pre('save') copies categoria to
\* categoriaId and cartao to cartaoId) and returned; valor is given in mils
CreateTransaction(userId, tipo, valor, data, categoriaId, cartaoId, st) ==
    /\ Cardinality(DOMAIN transactions) < MaxTx
    /\ NextId(DOMAIN transactions) <= MaxTx
    /\ LET id  == NextId(DOMAIN transactions)
           doc == [user      |-> userId,
                   tipo      |-> tipo,
                   valor     |-> RoundCents(valor),
                   data      |-> data,
                   categoria |-> categoriaId,
                   categoriaId |-> categoriaId,
                   cartao    |-> cartaoId,
                   cartaoId  |-> cartaoId,
                   status    |-> st]
       IN  /\ transactions' = [x \in DOMAIN transactions \cup {id} |->
                                  IF x = id THEN doc ELSE transactions[x]]
           /\ res' = [op |-> "createTransaction", status |-> 201, data |-> doc]
    /\ UNCHANGED <<limits, now, apply, rst, evo, users>>

\* TransactionController.getTransactionById: the document is found by its
\* id, then its user is compared with the caller
GetTransactionById(userId, id) ==
    /\ res' = IF id \notin DOMAIN transactions
                 THEN [op |-> "getTransactionById", status |-> 404,
                       user |-> userId, id |-> id]
              ELSE IF transactions[id].user # userId
                 THEN [op |-> "getTransactionById", status |-> 403,
                       user |-> userId, id |-> id]
              ELSE [op |-> "getTransactionById", status |-> 200,
                    user |-> userId, id |-> id, data |-> transactions[id]]
    /\ UNCHANGED <<limits, transactions, now, apply, rst, evo, users>>

\* the requests explored: (valor, status) of the body, valor in mils
UpdateInputs == { <<990000, "confirmada">>, <<150000, "cancelada">> }

\* TransactionRepository.update(id, updateData): findByIdAndUpdate by the
\* id alone; null when there is no such document
update(id, valor, st) ==
    IF id \notin DOMAIN transactions THEN transactions
    ELSE [transactions EXCEPT ![id].valor = RoundCents(valor), ![id].status = st]

\* TransactionController.updateTransaction: the repository is given the id,
\* the body and the user, and its result is returned
UpdateTransaction(userId, id, valor, st) ==
    /\ transactions' = update(id, valor, st)
    /\ res' = IF id \notin DOMAIN transactions
                 THEN [op |-> "updateTransaction", status |-> 200,
                       user |-> userId, id |-> id, data |-> Null]
              ELSE [op |-> "updateTransaction", status |-> 200,
                    user |-> userId, id |-> id, data |-> update(id, valor, st)[id]]
    /\ UNCHANGED <<limits, now, apply, rst, evo, users>>

\* deleteTransaction taking the deleted amount back out of the limits that
\* apply to the transaction
DeleteTransactionRollback(userId, id) ==
    IF id \notin DOMAIN transactions
    THEN /\ res' = [op |-> "deleteTransaction", status |-> 404,
                    user |-> userId, id |-> id]
         /\ UNCHANGED <<limits, transactions, now, apply, rst, evo, users>>
    ELSE IF transactions[id].user # userId
    THEN /\ res' = [op |-> "deleteTransaction", status |-> 403,
                    user |-> userId, id |-> id]
         /\ UNCHANGED <<limits, transactions, now, apply, rst, evo, users>>
    ELSE /\ transactions' = [x \in DOMAIN transactions \ {id} |-> transactions[x]]
         /\ limits' = [k \in DOMAIN limits |->
                          IF applies(limits[k], userId, transactions[id].categoriaId,
                                     transactions[id].cartaoId)
                          THEN [limits[k] EXCEPT
                                  !.valorGasto = Max(0, @ - transactions[id].valor)]
                          ELSE limits[k]]
         /\ res' = [op |-> "deleteTransaction", status |-> 200,
                    user |-> userId, id |-> id]
         /\ UNCHANGED <<now, apply, rst, evo, users>>

\* TransactionController.deleteTransaction: found by id, the user compared,
\* then findByIdAndDelete
DeleteTransaction(userId, id) ==
    IF id \notin DOMAIN transactions
    THEN /\ res' = [op |-> "deleteTransaction", status |-> 404,
                    user |-> userId, id |-> id]
         /\ UNCHANGED <<limits, transactions, now, apply, rst, evo, users>>
    ELSE IF transactions[id].user # userId
    THEN /\ res' = [op |-> "deleteTransaction", status |-> 403,
                    user |-> userId, id |-> id]
         /\ UNCHANGED <<limits, transactions, now, apply, rst, evo, users>>
    ELSE /\ transactions' = [x \in DOMAIN transactions \ {id} |-> transactions[x]]
         /\ res' = [op |-> "deleteTransaction", status |-> 200,
                    user |-> userId, id |-> id]
         /\ UNCHANGED <<limits, now, apply, rst, evo, users>>

(***************************************************************************)
(* The reports of TransactionRepository and ReportService, as functions of *)
(* a Transaction collection txs.  The server's time zone is UTC, so that   *)
(* $month reads the same calendar as the Date constructor.                 *)
(***************************************************************************)
RECURSIVE SumOf(_, _)
\* $sum: '$valor' over the documents ids of txs
SumOf(txs, ids) ==
    IF ids = {} THEN 0
    ELSE LET x == CHOOSE y \in ids : TRUE
         IN  txs[x].valor + SumOf(txs, ids \ {x})

\* the match stage of the reports without its status
matchStageAnyStatus(t, userId, startDate, endDate) ==
    /\ t.user = userId
    /\ (startDate # NullDate => DateLte(startDate, t.data))
    /\ (endDate # NullDate => DateLte(t.data, endDate))

\* the match stage of the reports: the user, status 'confirmada' and the
\* dates that were given
matchStage(t, userId, startDate, endDate) ==
    /\ t.user = userId
    /\ t.status = "confirmada"
    /\ (startDate # NullDate => DateLte(startDate, t.data))
    /\ (endDate # NullDate => DateLte(t.data, endDate))

\* TransactionRepository.getFinancialSummary
getFinancialSummary(txs, userId, startDate, endDate) ==
    LET of(tipo) == { x \in DOMAIN txs :
                        /\ matchStage(txs[x], userId, startDate, endDate)
                        /\ txs[x].tipo = tipo }
        receitas == Abs(SumOf(txs, of("receita")))
        despesas == Abs(SumOf(txs, of("despesa")))
    IN  [ receitas        |-> receitas,
          despesas        |-> despesas,
          saldo           |-> receitas - despesas,
          totalTransacoes |-> Cardinality(of("receita")) + Cardinality(of("despesa")) ]

\* TransactionRepository.getByCategory: the groups (categoriaId, tipo) whose
\* category exists; the order of the result is that of the totals
getByCategory(txs, userId, startDate, endDate) ==
    LET of(c, tipo) == { x \in DOMAIN txs :
                           /\ matchStage(txs[x], userId, startDate, endDate)
                           /\ txs[x].categoriaId = c
                           /\ txs[x].tipo = tipo }
        groups == { g \in CategoryIds \X {"receita", "despesa"} : of(g[1], g[2]) # {} }
    IN  { [ categoria |-> g[1],
            tipo      |-> g[2],
            total     |-> Abs(SumOf(txs, of(g[1], g[2]))),
            count     |-> Cardinality(of(g[1], g[2])) ] : g \in groups }

\* sort by total descending, then slice(0, 5)
topFive(groups) ==
    IF Cardinality(groups) <= 5 THEN groups
    ELSE CHOOSE top \in SUBSET groups :
            /\ Cardinality(top) = 5
            /\ \A g \in top, h \in groups \ top : g.total >= h.total

\* ReportService.getTopCategories
getTopCategories(txs, userId, startDate, endDate) ==
    LET groups == getByCategory(txs, userId, startDate, endDate)
    IN  [ receitas |-> topFive({ g \in groups : g.tipo = "receita" }),
          despesas |-> topFive({ g \in groups : g.tipo = "despesa" }) ]

\* TransactionRepository.getMonthlyCashFlow: an entry for each month of the
\* year in which a transaction matches, sorted by month
getMonthlyCashFlow(txs, userId, year) ==
    LET startDate == Date(MakeDay(year, 0, 1), 0)
        endDate   == Date(MakeDay(year, 11, 31), MsLastSecond)
        of(mes, tipo) == { x \in DOMAIN txs :
                             /\ matchStage(txs[x], userId, startDate, endDate)
                             /\ getMonth(txs[x].data.day) + 1 = mes
                             /\ txs[x].tipo = tipo }
        months == { m \in 1..12 : of(m, "receita") \cup of(m, "despesa") # {} }
        order  == SeqOfIds(months)
    IN  [ k \in 1..Len(order) |->
            LET receitas == Abs(SumOf(txs, of(order[k], "receita")))
                despesas == Abs(SumOf(txs, of(order[k], "despesa")))
            IN  [ mes      |-> order[k],
                  receitas |-> receitas,
                  despesas |-> despesas,
                  saldo    |-> receitas - despesas ] ]

\* the months of the query's result as they come, none filled in
fluxoSemPreencher(fluxoCaixa) == fluxoCaixa

\* fluxoCompleto: for mes = 1..12 the query's entry of that month, or zeros
fluxoCompleto(fluxoCaixa) ==
    [ mes \in 1..12 |->
        IF \E k \in 1..Len(fluxoCaixa) : fluxoCaixa[k].mes = mes
        THEN fluxoCaixa[CHOOSE k \in 1..Len(fluxoCaixa) :
                           /\ fluxoCaixa[k].mes = mes
                           /\ \A j \in 1..(k - 1) : fluxoCaixa[j].mes # mes]
        ELSE [mes |-> mes, receitas |-> 0, despesas |-> 0, saldo |-> 0] ]

RECURSIVE saldoAcumulado(_, _)
\* the running saldoAcumulado after the first k entries
saldoAcumulado(fluxo, k) ==
    IF k = 0 THEN 0 ELSE saldoAcumulado(fluxo, k - 1) + fluxo[k].saldo

RECURSIVE SumField(_, _, _)
\* reduce((sum, mes) => sum + mes[field], 0) over the first k entries
SumField(fluxo, field, k) ==
    IF k = 0 THEN 0 ELSE SumField(fluxo, field, k - 1) + fluxo[k][field]

\* ReportService.generateCashFlowReport (the yearly means are left out)
generateCashFlowReport(txs, userId, ano) ==
    LET fluxo == fluxoCompleto(getMonthlyCashFlow(txs, userId, ano))
        totalReceitas == SumField(fluxo, "receitas", Len(fluxo))
        totalDespesas == SumField(fluxo, "despesas", Len(fluxo))
    IN  [ ano         |-> ano,
          fluxoMensal |-> [ k \in 1..Len(fluxo) |->
                              [ mes            |-> fluxo[k].mes,
                                receitas       |-> fluxo[k].receitas,
                                despesas       |-> fluxo[k].despesas,
                                saldo          |-> fluxo[k].saldo,
                                saldoAcumulado |-> saldoAcumulado(fluxo, k) ] ],
          resumoAnual |-> [ totalReceitas |-> totalReceitas,
                            totalDespesas |-> totalDespesas,
                            saldoTotal    |-> totalReceitas - totalDespesas ] ]

\* the years asked for
ReportYears == {2023, 2024, 2025}

\* ReportController.generateCashFlowReport
GenerateCashFlowReport(userId, ano) ==
    /\ res' = [op |-> "generateCashFlowReport", status |-> 200, user |-> userId,
               data |-> generateCashFlowReport(transactions, userId, ano)]
    /\ UNCHANGED <<limits, transactions, now, apply, rst, evo, users>>

\* inicioMes and fimMes of the month of inicio
inicioMes(inicio) ==
    Date(MakeDay(getFullYear(inicio.day), getMonth(inicio.day), 1), 0)

fimMes(inicio) ==
    Date(MakeDay(getFullYear(inicio.day), getMonth(inicio.day) + 1, 0), MsLastSecond)

\* the entry pushed for the month of inicio
evolutionEntry(txs, userId, inicio) ==
    LET resumoMes == getFinancialSummary(txs, userId, inicioMes(inicio), fimMes(inicio))
    IN  [ ano             |-> getFullYear(inicio.day),
          mes             |-> getMonth(inicio.day) + 1,
          receitas        |-> resumoMes.receitas,
          despesas        |-> resumoMes.despesas,
          saldo           |-> resumoMes.saldo,
          totalTransacoes |-> resumoMes.totalTransacoes ]

\* inicio.setMonth(inicio.getMonth() + 1): the day of the month and the time
\* of day are kept, a day past the end of the month runs into the next one
setMonthNext(inicio) ==
    Date(MakeDay(getFullYear(inicio.day), getMonth(inicio.day) + 1, getDate(inicio.day)),
         inicio.ms)

RECURSIVE getMonthlyEvolution(_, _, _, _)
\* ReportService.getMonthlyEvolution over an unchanging collection
getMonthlyEvolution(txs, userId, inicio, fim) ==
    IF ~DateLte(inicio, fim) THEN <<>>
    ELSE <<evolutionEntry(txs, userId, inicio)>>
            \o getMonthlyEvolution(txs, userId, setMonthNext(inicio), fim)

\* no getMonthlyEvolution call is under way
IdleEvo == [pc |-> "idle"]

\* the ranges asked for: from 2023-12-27, 2024-01-01, 2024-01-15 or
\* 2024-01-31 to 2024-01-31, 2024-02-10, 2024-03-10 or 2024-03-31
EvolutionStarts == { Date(0 - 5, 0), Date(0, 0), Date(14, 0), Date(14, 1), Date(30, 0) }

EvolutionEnds == { Date(30, 0), Date(40, 0), Date(69, 0), Date(90, 0) }

\* getMonthlyEvolution is called: inicio and fim are copies of the arguments
EvolutionStart(userId, startDate, endDate) ==
    /\ evo.pc = "idle"
    /\ evo' = [pc |-> "loop", userId |-> userId,
               startDate |-> startDate, endDate |-> endDate,
               inicio |-> startDate, fim |-> endDate, meses |-> <<>>]
    /\ UNCHANGED <<limits, transactions, now, apply, rst, res, users>>

\* the test of the while loop and one pass of its body, which awaits the
\* month's summary
EvolutionStep ==
    /\ evo.pc = "loop"
    /\ evo' = IF DateLte(evo.inicio, evo.fim)
              THEN [evo EXCEPT
                      !.meses = Append(@, evolutionEntry(transactions, evo.userId, evo.inicio)),
                      !.inicio = setMonthNext(@)]
              ELSE [evo EXCEPT !.pc = "done"]
    /\ UNCHANGED <<limits, transactions, now, apply, rst, res, users>>

\* return meses
EvolutionReturn ==
    /\ evo.pc = "done"
    /\ res' = [op |-> "getMonthlyEvolution", status |-> 200, user |-> evo.userId,
               startDate |-> evo.startDate, endDate |-> evo.endDate,
               data |-> evo.meses]
    /\ evo' = IdleEvo
    /\ UNCHANGED <<limits, transactions, now, apply, rst, users>>

(***************************************************************************)
(* DashboardService and the category report (services/dashboardService.js, *)
(* ReportService.generateCategoryReport).  A JavaScript quotient n / d of  *)
(* two integers is the record [num, den] with den >= 0: den = 0 is         *)
(* Infinity (num > 0), -Infinity (num < 0) or NaN (num = 0).               *)
(***************************************************************************)
JsDiv(n, d) == IF d < 0 THEN [num |-> 0 - n, den |-> 0 - d] ELSE [num |-> n, den |-> d]

JsNum(n) == [num |-> n, den |-> 1]

\* p > k and p < k for an integer k: false of NaN
JsGt(p, k) == IF p.den = 0 THEN p.num > 0 ELSE p.num > k * p.den

JsLt(p, k) == IF p.den = 0 THEN p.num < 0 ELSE p.num < k * p.den

\* p === 0
IsZero(p) == p.den > 0 /\ p.num = 0

\* calcularVariacao(atual, anterior) of getComparison
calcularVariacao(atual, anterior) ==
    IF anterior = 0 THEN (IF atual > 0 THEN JsNum(100) ELSE JsNum(0))
    ELSE JsDiv((atual - anterior) * 100, anterior)

\* DashboardService.getComparison: the period before [inicioAtual, fimAtual]
\* has Math.ceil((fimAtual - inicioAtual) / day) days and ends one day
\* before inicioAtual
getComparison(txs, userId, inicioAtual, fimAtual) ==
    LET diasPeriodo    == (fimAtual.day - inicioAtual.day)
                            + (IF fimAtual.ms > inicioAtual.ms THEN 1 ELSE 0)
        inicioAnterior == Date(inicioAtual.day - diasPeriodo, inicioAtual.ms)
        fimAnterior    == Date(inicioAtual.day - 1, inicioAtual.ms)
        resumoAtual    == getFinancialSummary(txs, userId, inicioAtual, fimAtual)
        resumoAnterior == getFinancialSummary(txs, userId, inicioAnterior, fimAnterior)
    IN  [ periodoAtual    |-> [inicio |-> inicioAtual, fim |-> fimAtual,
                               resumo |-> resumoAtual],
          periodoAnterior |-> [inicio |-> inicioAnterior, fim |-> fimAnterior,
                               resumo |-> resumoAnterior],
          variacao |-> [ receitas |-> calcularVariacao(resumoAtual.receitas,
                                                       resumoAnterior.receitas),
                         despesas |-> calcularVariacao(resumoAtual.despesas,
                                                       resumoAnterior.despesas),
                         saldo    |-> calcularVariacao(resumoAtual.saldo,
                                                       resumoAnterior.saldo) ] ]

\* diferenca of calcularTendencia: ((ultimo - primeiro) / primeiro) * 100
diferenca(valores) ==
    JsDiv((valores[Len(valores)] - valores[1]) * 100, valores[1])

\* calcularTendencia(valores) of calculateTrends
calcularTendencia(valores) ==
    IF Len(valores) < 2 THEN "estavel"
    ELSE IF JsGt(diferenca(valores), 5) THEN "crescente"
    ELSE IF JsLt(diferenca(valores), 0 - 5) THEN "decrescente"
    ELSE "estavel"

\* DashboardService.calculateTrends
calculateTrends(fluxoCaixa) ==
    IF Len(fluxoCaixa) < 2
    THEN [receitas |-> "estavel", despesas |-> "estavel", saldo |-> "estavel"]
    ELSE [ receitas |-> calcularTendencia([k \in 1..Len(fluxoCaixa) |-> fluxoCaixa[k].receitas]),
           despesas |-> calcularTendencia([k \in 1..Len(fluxoCaixa) |-> fluxoCaixa[k].despesas]),
           saldo    |-> calcularTendencia([k \in 1..Len(fluxoCaixa) |-> fluxoCaixa[k].saldo]) ]

\* DashboardService.getFinancialTrends (the period is left out)
getFinancialTrends(txs, userId, hoje) ==
    LET fluxoCaixa == getMonthlyCashFlow(txs, userId, getFullYear(hoje.day))
    IN  [fluxoCaixa |-> fluxoCaixa, tendencias |-> calculateTrends(fluxoCaixa)]

\* Card.getGastosMes(ano, mes) of the card cartaoId
getGastosMes(txs, cartaoId, ano, mes) ==
    LET startDate == Date(MakeDay(ano, mes - 1, 1), 0)
        endDate   == Date(MakeDay(ano, mes, 0), MsLastSecond)
    IN  Abs(SumOf(txs, { x \in DOMAIN txs :
                           /\ txs[x].cartaoId = cartaoId
                           /\ DateLte(startDate, txs[x].data)
                           /\ DateLte(txs[x].data, endDate)
                           /\ txs[x].tipo = "despesa"
                           /\ txs[x].status = "confirmada" }))

\* the virtual percentualUsado of a card
cardPercentualUsado(cartao) ==
    IF cartao.limite = 0 THEN JsNum(0)
    ELSE IF cartao.saldoAtual > cartao.limite THEN JsNum(100)
    ELSE JsDiv(cartao.saldoAtual * 100, cartao.limite)

\* DashboardService.getCardExpensesSummary: an entry for each active card of
\* the user
getCardExpensesSummary(txs, userId, ano, mes) ==
    [ k \in { c \in DOMAIN Cards : Cards[c].user = userId /\ Cards[c].ativo } |->
        LET gastosMes == getGastosMes(txs, k, ano, mes)
        IN  [ limite          |-> Cards[k].limite,
              gastos          |-> gastosMes,
              limiteDisponivel |-> Cards[k].limite - gastosMes,
              percentualUsado |-> IF Cards[k].limite > 0
                                  THEN JsDiv(gastosMes * 100, Cards[k].limite)
                                  ELSE JsNum(0),
              virtual         |-> cardPercentualUsado(Cards[k]) ] ]

\* ReportService.generateCategoryReport: an entry for each category of the
\* user (the order of the entries is left out)
generateCategoryReport(txs, userId, start, end) ==
    LET porCategoria == getByCategory(txs, userId, start, end)
        of(c, tipo)  == { g \in porCategoria : g.categoria = c /\ g.tipo = tipo }
        total(c, tipo) == IF of(c, tipo) = {} THEN 0
                          ELSE (CHOOSE g \in of(c, tipo) : TRUE).total
        count(c, tipo) == IF of(c, tipo) = {} THEN 0
                          ELSE (CHOOSE g \in of(c, tipo) : TRUE).count
        totalGasto(c)  == total(c, "receita") + total(c, "despesa")
        quantidade(c)  == count(c, "receita") + count(c, "despesa")
        categorias == { c \in CategoryIds : Categories[c].user = userId }
        totalGeral == LET RECURSIVE sum(_)
                          sum(k) == IF k = 0 THEN 0
                                    ELSE sum(k - 1)
                                           + (IF CategoryOrder[k] \in categorias
                                              THEN totalGasto(CategoryOrder[k]) ELSE 0)
                      IN  sum(Len(CategoryOrder))
    IN  [ categorias |-> [ c \in categorias |->
                             [ totalGasto           |-> totalGasto(c),
                               quantidadeTransacoes |-> quantidade(c),
                               mediaTransacao       |-> IF quantidade(c) > 0
                                                        THEN JsDiv(totalGasto(c), quantidade(c))
                                                        ELSE JsNum(0),
                               percentualDoTotal    |-> IF totalGeral > 0
                                                        THEN JsDiv(totalGasto(c) * 100, totalGeral)
                                                        ELSE JsNum(0) ] ],
          totalGeral |-> totalGeral ]

\* the periods asked for: January and March 2024
DashboardRanges ==
    { <<Date(0, 0), Date(30, MsLastSecond)>>, <<Date(60, 0), Date(90, MsLastSecond)>> }

\* DashboardController.getComparison
GetComparison(userId, dataInicio, dataFim) ==
    /\ res' = [op |-> "getComparison", status |-> 200, user |-> userId,
               data |-> getComparison(transactions, userId, dataInicio, dataFim)]
    /\ UNCHANGED <<limits, transactions, now, apply, rst, evo, users>>

\* DashboardController.getFinancialTrends
GetFinancialTrends(userId) ==
    /\ res' = [op |-> "getFinancialTrends", status |-> 200, user |-> userId,
               data |-> getFinancialTrends(transactions, userId, now)]
    /\ UNCHANGED <<limits, transactions, now, apply, rst, evo, users>>

\* DashboardController.getCardExpensesSummary without ano and mes
GetCardExpensesSummary(userId) ==
    /\ res' = [op |-> "getCardExpensesSummary", status |-> 200, user |-> userId,
               data |-> getCardExpensesSummary(transactions, userId,
                                               getFullYear(now.day), getMonth(now.day) + 1)]
    /\ UNCHANGED <<limits, transactions, now, apply, rst, evo, users>>

\* ReportController.generateCategoryReport
GenerateCategoryReport(userId, startDate, endDate) ==
    /\ res' = [op |-> "generateCategoryReport", status |-> 200, user |-> userId,
               data |-> generateCategoryReport(transactions, userId, startDate, endDate)]
    /\ UNCHANGED <<limits, transactions, now, apply, rst, evo, users>>

(***************************************************************************)
(* CategoryLimitController (controllers/categoryLimitController.js).       *)
(***************************************************************************)
\* first and last instant of the current month, as the controller builds them
monthStart(agora) == Date(MakeDay(getFullYear(agora.day), getMonth(agora.day), 1), 0)

monthEnd(agora) ==
    Date(MakeDay(getFullYear(agora.day), getMonth(agora.day) + 1, 0), MsLastSecond)

\* the $match of the month's aggregation
matches(t, userId, start, end) ==
    /\ t.user = userId
    /\ t.tipo = "despesa"
    /\ DateLte(start, t.data)
    /\ DateLte(t.data, end)

RECURSIVE SumValor(_)
SumValor(ids) ==
    IF ids = {} THEN 0
    ELSE LET x == CHOOSE y \in ids : TRUE
         IN  transactions[x].valor + SumValor(ids \ {x})

\* the $group of the aggregation for one category: total and count
gastos(userId, categoria, agora) ==
    LET ids == { x \in DOMAIN transactions :
                   /\ matches(transactions[x], userId, monthStart(agora), monthEnd(agora))
                   /\ transactions[x].categoria = categoria }
    IN  [spent |-> SumValor(ids), transactions |-> Cardinality(ids)]

\* Math.round((spent / budget) * 100) cut off at 100
percentageClamped(spent, budget) ==
    IF budget > 0 THEN Min(100, MathRound(spent * 100, budget)) ELSE 0

\* budget > 0 ? Math.round((spent / budget) * 100) : 0
percentage(spent, budget) ==
    IF budget > 0 THEN MathRound(spent * 100, budget) ELSE 0

\* the status thresholds with the warning tier dropped
viewStatusNoWarning(pct) == IF pct >= 100 THEN "exceeded" ELSE "safe"

viewStatus(pct) ==
    IF pct >= 100 THEN "exceeded" ELSE IF pct >= 80 THEN "warning" ELSE "safe"

\* one entry of the response
viewEntry(budget, g) ==
    [ budget       |-> budget,
      spent        |-> g.spent,
      remaining    |-> Max(0, budget - g.spent),
      percentage   |-> percentage(g.spent, budget),
      transactions |-> g.transactions,
      status       |-> viewStatus(percentage(g.spent, budget)) ]

\* the key under which limitByCategory holds a limit: the populated
\* categoria if that category exists, else categoriaId, else categoria
limitKey(l) ==
    IF l.categoria \in CategoryIds THEN l.categoria
    ELSE IF l.categoriaId # Null THEN l.categoriaId
    ELSE l.categoria

\* limitByCategory built from the active category limits of every user
limitByCategoryAnyUser(userId, catId) ==
    LET ids == { id \in DOMAIN limits :
                   /\ limits[id].tipo = "categoria"
                   /\ limits[id].ativo
                   /\ limitKey(limits[id]) = catId }
    IN  IF ids = {} THEN 0 ELSE CHOOSE m \in ids : \A x \in ids : x <= m

\* limitByCategory[catId]: the last of the user's active category limits
\* with that key, or 0 when there is none
limitByCategory(userId, catId) ==
    LET ids == { id \in DOMAIN limits :
                   /\ limits[id].user = userId
                   /\ limits[id].tipo = "categoria"
                   /\ limits[id].ativo
                   /\ limitKey(limits[id]) = catId }
    IN  IF ids = {} THEN 0 ELSE CHOOSE m \in ids : \A x \in ids : x <= m

\* getCategoryLimits: one entry for each of the user's categories of type
\* despesa
GetCategoryLimits(userId) ==
    /\ LET cats == { c \in CategoryIds :
                       Categories[c].user = userId /\ Categories[c].tipo = "despesa" }
           view == [c \in cats |->
                      LET id == limitByCategory(userId, c)
                      IN  viewEntry(IF id = 0 THEN 0 ELSE limits[id].valorLimite,
                                    gastos(userId, c, now))]
       IN  res' = [op |-> "getCategoryLimits", status |-> 200,
                   user |-> userId, data |-> view]
    /\ UNCHANGED <<limits, transactions, now, apply, rst, evo, users>>

\* strings of 24 characters that cast to an ObjectId (24 hex digits): the
\* categories' ids and the id of no document
ObjectIds == CategoryIds \cup {"c9"}

\* a categoriaId the controller accepts: a string of 24 characters, hex
\* digits or not
WellFormedIds == ObjectIds \cup {"zz"}

\* the requests explored: (userId, categoriaId, valor)
UpsertInputs ==
    { <<"u1", "c1", 500000>>,
      <<"u1", "c1", 300000>>,
      <<"u1", "c1", 250006>>,
      <<"u1", "c1", 0>>,
      <<"u1", "c1", -100000>>,
      <<"u1", Null, 500000>>,
      <<"u1", "bad", 500000>>,
      <<"u1", "zz", 500000>>,
      <<"u1", "c9", 300000>>,
      <<"u1", "c3", 300000>>,
      <<"u2", "c3", 300000>> }

\* ids that a running operation still holds
HeldIds ==
    UNION { { apply[p].found[k].id : k \in 1..Len(apply[p].found) } : p \in Procs }
    \cup (IF rst.pc = "idle" THEN {} ELSE {rst.id})

\* the two guards without the test of valor
upsertRejectsNoValor(categoriaId, valor) ==
    categoriaId = Null \/ categoriaId \notin WellFormedIds

\* the two guards of upsertCategoryLimit: !categoriaId || !valor || valor <= 0
\* (a missing valor and the valor 0 are both !valor), then the shape of
\* categoriaId
upsertRejects(categoriaId, valor) ==
    categoriaId = Null \/ valor = 0 \/ valor <= 0 \/ categoriaId \notin WellFormedIds

\* a filter that no document matches
categoryLimitFilterNone(l, userId, categoria) == FALSE

\* the filter with ativo: true added
categoryLimitFilterActive(l, userId, categoria) ==
    /\ l.user = userId
    /\ l.categoria = categoria
    /\ l.tipo = "categoria"
    /\ l.ativo

\* the filter { user, categoria, tipo: 'categoria' } of findOneAndUpdate and
\* findOneAndDelete
categoryLimitFilter(l, userId, categoria) ==
    /\ l.user = userId
    /\ l.categoria = categoria
    /\ l.tipo = "categoria"

\* upsertCategoryLimit: findOneAndUpdate with upsert, then the view of the
\* limit's month; valor is given in mils
UpsertCategoryLimit(userId, categoriaId, valor) ==
    IF upsertRejects(categoriaId, valor)
    THEN /\ res' = [op |-> "upsertCategoryLimit", status |-> 400,
                    user |-> userId, categoriaId |-> categoriaId, valor |-> valor]
         /\ UNCHANGED <<limits, transactions, now, apply, rst, evo, users>>
    ELSE IF categoriaId \notin ObjectIds
    THEN \* the query's cast throws a CastError, which errorHandler answers
         /\ res' = [op |-> "upsertCategoryLimit", status |-> 400,
                    user |-> userId, categoriaId |-> categoriaId, valor |-> valor]
         /\ UNCHANGED <<limits, transactions, now, apply, rst, evo, users>>
    ELSE LET hits == { id \in DOMAIN limits :
                         categoryLimitFilter(limits[id], userId, categoriaId) }
             id   == IF hits = {} THEN NextId(DOMAIN limits \cup HeldIds)
                     ELSE CHOOSE m \in hits : \A x \in hits : m <= x
             base == IF hits = {}
                     THEN LimitDoc(userId, Null, "categoria", 0, "mensal",
                                   categoriaId, Null, now)
                     ELSE limits[id]
             doc  == [base EXCEPT !.valorLimite = RoundCents(valor),
                                  !.ativo = TRUE,
                                  !.tipo = "categoria",
                                  !.categoria = categoriaId,
                                  !.categoriaId = categoriaId]
         IN  /\ id <= MaxLimits
             /\ limits' = [x \in DOMAIN limits \cup {id} |->
                              IF x = id THEN doc ELSE limits[x]]
             /\ res' = [op |-> "upsertCategoryLimit", status |-> 201,
                        user |-> userId, categoriaId |-> categoriaId,
                        valor |-> valor, id |-> id,
                        data |-> viewEntry(doc.valorLimite,
                                           gastos(userId, doc.categoria, now))]
             /\ UNCHANGED <<transactions, now, apply, rst, evo, users>>

\* deleteCategoryLimit: the category is looked up by name alone, then the
\* user's limit on it is deleted
DeleteCategoryLimit(userId, categoryName) ==
    LET cats == { c \in CategoryIds : Categories[c].nome = categoryName }
    IN  IF cats = {}
        THEN /\ res' = [op |-> "deleteCategoryLimit", status |-> 404,
                        user |-> userId, categoryName |-> categoryName]
             /\ UNCHANGED <<limits, transactions, now, apply, rst, evo, users>>
        ELSE LET k    == CHOOSE i \in 1..Len(CategoryOrder) :
                             /\ CategoryOrder[i] \in cats
                             /\ \A j \in 1..(i - 1) : CategoryOrder[j] \notin cats
                 cat  == CategoryOrder[k]
                 hits == { id \in DOMAIN limits :
                             categoryLimitFilter(limits[id], userId, cat) }
                 gone == IF hits = {} THEN {}
                         ELSE { CHOOSE m \in hits : \A x \in hits : m <= x }
             IN  /\ limits' = [x \in DOMAIN limits \ gone |-> limits[x]]
                 /\ res' = [op |-> "deleteCategoryLimit", status |-> 200,
                            user |-> userId, categoryName |-> categoryName]
                 /\ UNCHANGED <<transactions, now, apply, rst, evo, users>>

(***************************************************************************)
(* AuthService and utils/jwt.js.  A JWT is the record of its payload: the  *)
(* header, the secret and so the signature are the same for every token    *)
(* the server signs, and jsonwebtoken's iat and exp count whole seconds.   *)
(* signed is false of a token that the server's secret did not sign.       *)
(***************************************************************************)
RefreshDays == 7   \* REFRESH_TOKEN_EXPIRES, 604800 seconds

\* bcrypt.hash, and bcrypt.compare through comparePassword
hash(password) == <<"bcrypt", password>>

comparePassword(user, candidatePassword) == user.password = hash(candidatePassword)

InitUsers ==
    [u \in Users |-> [password |-> hash("p1"), isActive |-> TRUE, refreshTokens |-> <<>>]]

\* generateRefreshToken: jwt.sign of { id, email, tokenType: 'refresh' } with
\* expiresIn, issued at the clock's second
generateRefreshToken(userId, agora) ==
    [ id |-> userId, tokenType |-> "refresh", signed |-> TRUE,
      iat |-> [day |-> agora.day, sec |-> agora.ms \div 1000],
      exp |-> [day |-> agora.day + RefreshDays, sec |-> agora.ms \div 1000] ]

\* validateRefreshToken: verifyToken (signature, expiry), then the tokenType
validateRefreshToken(refreshToken, agora) ==
    /\ refreshToken.signed
    /\ \/ agora.day < refreshToken.exp.day
       \/ agora.day = refreshToken.exp.day /\ agora.ms \div 1000 < refreshToken.exp.sec
    /\ refreshToken.tokenType = "refresh"

\* AuthService.refreshTokens(refreshToken) on the collection us: what it
\* returns or throws and what it leaves in the collection
refreshTokens(us, refreshToken, agora) ==
    LET user  == us[refreshToken.id]
        kept  == SelectSeq(user.refreshTokens, LAMBDA x : x # refreshToken)
        novo  == generateRefreshToken(refreshToken.id, agora)
    IN  IF ~validateRefreshToken(refreshToken, agora)
        THEN [ok |-> FALSE, error |-> "Refresh token invalido", users |-> us]
        ELSE IF ~user.isActive
        THEN [ok |-> FALSE, error |-> "Conta desativada", users |-> us]
        ELSE IF \A k \in 1..Len(user.refreshTokens) : user.refreshTokens[k] # refreshToken
        THEN [ok |-> FALSE, error |-> "Refresh token invalido", users |-> us]
        ELSE [ok |-> TRUE, error |-> Null, refreshToken |-> novo,
              users |-> [us EXCEPT ![refreshToken.id].refreshTokens = Append(kept, novo)]]

\* AuthController.refresh
RefreshTokens(refreshToken) ==
    /\ LET r == refreshTokens(users, refreshToken, now)
       IN  /\ users' = r.users
           /\ res' = IF r.ok
                     THEN [op |-> "refreshTokens", status |-> 200, user |-> refreshToken.id,
                           given |-> refreshToken, refreshToken |-> r.refreshToken]
                     ELSE [op |-> "refreshTokens", status |-> 401, user |-> refreshToken.id,
                           given |-> refreshToken, error |-> r.error]
    /\ UNCHANGED <<limits, transactions, now, apply, rst, evo>>

\* AuthService.login: the password is compared, a refresh token is pushed
\* and the last five are kept
Login(userId, password) ==
    /\ Len(users[userId].refreshTokens) < MaxSessions
    /\ IF comparePassword(users[userId], password)
       THEN LET novo == generateRefreshToken(userId, now)
                list == Append(users[userId].refreshTokens, novo)
            IN  /\ users' = [users EXCEPT ![userId].refreshTokens =
                                IF Len(list) > 5 THEN SubSeq(list, Len(list) - 4, Len(list))
                                ELSE list]
                /\ res' = [op |-> "login", status |-> 200, user |-> userId,
                           refreshToken |-> novo]
       ELSE /\ res' = [op |-> "login", status |-> 401, user |-> userId,
                       error |-> "Credenciais invalidas"]
            /\ UNCHANGED users
    /\ UNCHANGED <<limits, transactions, now, apply, rst, evo>>

\* AuthService.logoutAll
LogoutAll(userId) ==
    /\ users' = [users EXCEPT ![userId].refreshTokens = <<>>]
    /\ res' = [op |-> "logoutAll", status |-> 200, user |-> userId]
    /\ UNCHANGED <<limits, transactions, now, apply, rst, evo>>

\* AuthService.changePassword
ChangePassword(userId, currentPassword, newPassword) ==
    /\ IF comparePassword(users[userId], currentPassword)
       THEN /\ users' = [users EXCEPT ![userId].password = hash(newPassword),
                                      ![userId].refreshTokens = <<>>]
            /\ res' = [op |-> "changePassword", status |-> 200, user |-> userId]
       ELSE /\ res' = [op |-> "changePassword", status |-> 400, user |-> userId,
                       error |-> "Senha atual incorreta"]
            /\ UNCHANGED users
    /\ UNCHANGED <<limits, transactions, now, apply, rst, evo>>

\* the clock passes into the next second
TickSecond ==
    /\ now.ms \div 1000 < MaxSeconds
    /\ now' = Date(now.day, (now.ms \div 1000 + 1) * 1000)
    /\ UNCHANGED <<limits, transactions, apply, rst, res, evo, users>>

(***************************************************************************)
(* Initial states: limits that were created with save() (they have a nome  *)
(* and a stored proximoReset) before the clock's first reading.            *)
(***************************************************************************)
Start == Date(30, 0)   \* 2024-01-31 00:00:00.000

Saved(l) == preSave(l)

LimiteGeral ==
    Saved(LimitDoc("u1", "Geral", "geral", 100000, "mensal", Null, Null, Date(0, 0)))

LimiteCategoria ==
    Saved(LimitDoc("u1", "Alimentacao", "categoria", 30000, "mensal", "c1", Null, Date(20, 0)))

LimiteCartao ==
    Saved(LimitDoc("u1", "Cartao", "cartao", 0, "semanal", Null, "k1", Date(20, 0)))

LimiteDiario ==
    Saved(LimitDoc("u1", "Dia", "geral", 5000, "diario", Null, Null, Start))

LimiteOutro ==
    Saved(LimitDoc("u2", "Ano", "geral", 5000, "anual", Null, Null, Date(0, 0)))

LimiteInativo ==
    [Saved(LimitDoc("u1", "Velho", "geral", 5000, "mensal", Null, Null, Date(0, 0)))
        EXCEPT !.ativo = FALSE]

LimiteSalario ==
    Saved(LimitDoc("u1", "Salario", "categoria", 50000, "mensal", "c2", Null, Date(0, 0)))

InitLimits ==
    { <<LimiteGeral, LimiteCategoria>>,
      <<LimiteCartao, LimiteDiario>>,
      <<LimiteOutro, LimiteInativo>> }

InitCommon ==
    /\ transactions = <<>>
    /\ now = Start
    /\ apply = [p \in Procs |-> IdleApply]
    /\ rst = IdleReset
    /\ res = [op |-> "none", status |-> 0]
    /\ evo = IdleEvo
    /\ users = InitUsers

(***************************************************************************)
(* The limit engine: accruals, resets, the sweep's query and the upsert    *)
(* of category limits, under a running clock.                              *)
(***************************************************************************)
Init ==
    /\ limits \in InitLimits
    /\ InitCommon

\* no updateFromTransactions call and no resetar() caller is under way
Quiet == rst.pc = "idle" /\ \A p \in Procs : apply[p].pc = "idle"

\* here the operations run one at a time; SpecRace interleaves them
Next ==
    \/ TickMs
    \/ \E n \in DaySteps : TickDays(n)
    \/ \E a \in ApplyInputs : Quiet /\ ApplyFind(1, a[1], a[2], a[3], a[4])
    \/ ApplySave(1)
    \/ ApplyReturn(1)
    \/ \E id \in 1..MaxLimits : Quiet /\ ResetLoad(id)
    \/ Resetar
    \/ ResetSave
    \/ ResetReturn
    \/ Quiet /\ UpsertCategoryLimit("u1", "c1", 300000)

Spec == Init /\ [][Next]_vars

(***************************************************************************)
(* The budget view: transactions are recorded, category limits are set and *)
(* removed and the view is read, within one month.                        *)
(***************************************************************************)
LimiteAlimentacao ==
    Saved(LimitDoc("u1", "Alimentacao", "categoria", 50000, "mensal", "c1", Null, Date(20, 0)))

InitBudget ==
    /\ limits = <<LimiteGeral, LimiteAlimentacao>>
    /\ InitCommon

NextBudget ==
    \/ \E t \in TxInputs : CreateTransaction(t[1], t[2], t[3], t[4], t[5], Null, t[6])
    \/ \E u \in Users : GetCategoryLimits(u)
    \/ \E a \in UpsertInputs : UpsertCategoryLimit(a[1], a[2], a[3])
    \/ \E u \in Users, n \in {"Alimentacao", "Lazer"} : DeleteCategoryLimit(u, n)

SpecBudget == InitBudget /\ [][NextBudget]_vars

(***************************************************************************)
(* The ledger: transactions are recorded, read, changed and deleted by     *)
(* their ids, and the year's cash flow is reported.                        *)
(***************************************************************************)
NextLedger ==
    \/ \E t \in TxInputs : CreateTransaction(t[1], t[2], t[3], t[4], t[5], Null, t[6])
    \/ \E u \in Users, id \in 1..MaxTx : GetTransactionById(u, id)
    \/ \E u \in Users, id \in 1..MaxTx, a \in UpdateInputs :
          UpdateTransaction(u, id, a[1], a[2])
    \/ \E u \in Users, id \in 1..MaxTx : DeleteTransaction(u, id)
    \/ \E u \in Users, ano \in ReportYears : GenerateCashFlowReport(u, ano)

SpecLedger == InitBudget /\ [][NextLedger]_vars

(***************************************************************************)
(* The monthly evolution of a range of dates, while transactions are       *)
(* recorded.                                                               *)
(***************************************************************************)
NextEvolution ==
    \/ \E s \in EvolutionStarts, e \in EvolutionEnds : EvolutionStart("u1", s, e)
    \/ EvolutionStep
    \/ EvolutionReturn
    \/ \E t \in { i \in TxInputs : i[1] = "u1" /\ i[6] = "confirmada" } :
          CreateTransaction(t[1], t[2], t[3], t[4], t[5], Null, t[6])

SpecEvolution == InitBudget /\ [][NextEvolution]_vars

(***************************************************************************)
(* The dashboard and the category report, read while transactions are      *)
(* recorded over two months.                                               *)
(***************************************************************************)
NextDashboard ==
    \/ \E t \in TxInputs, k \in {Null} \cup DOMAIN Cards :
          CreateTransaction(t[1], t[2], t[3], t[4], t[5], k, t[6])
    \/ \E n \in DaySteps : TickDays(n)
    \/ \E u \in Users, r \in DashboardRanges : GetComparison(u, r[1], r[2])
    \/ \E u \in Users : GetFinancialTrends(u)
    \/ \E u \in Users : GetCardExpensesSummary(u)
    \/ \E u \in Users, r \in DashboardRanges : GenerateCategoryReport(u, r[1], r[2])

SpecDashboard == InitBudget /\ [][NextDashboard]_vars

(***************************************************************************)
(* One general limit with a ceiling of 0.00, 1.00 or 2.00 that accrues     *)
(* expenses of 0.01 and 0.07, so that its percentage passes every          *)
(* threshold.                                                              *)
(***************************************************************************)
LimiteTeto(valorLimite) ==
    Saved(LimitDoc("u1", "Teto", "geral", valorLimite, "mensal", Null, Null, Date(0, 0)))

InitStatus ==
    /\ limits \in { <<LimiteTeto(v)>> : v \in {0, 100, 200} }
    /\ InitCommon

NextStatus ==
    \/ \E valor \in {10, 0 - 70} :
          /\ limits[1].valorGasto <= MaxAccrued
          /\ ApplyFind(1, "u1", Null, Null, valor)
    \/ ApplySave(1)
    \/ ApplyReturn(1)

SpecStatus == InitStatus /\ [][NextStatus]_vars

(***************************************************************************)
(* The amounts of the limits under every operation that writes them:       *)
(* upserts, accruals of either sign, adicionarGasto and resets.            *)
(***************************************************************************)
AmountInputs ==
    { <<"u1", "c1", 300000>>, <<"u1", "c1", 4>>, <<"u1", "c1", 0>>,
      <<"u1", "c1", 0 - 100000>>, <<"u2", "c3", 6>> }

NextAmounts ==
    \/ \E i \in AmountInputs : Quiet /\ UpsertCategoryLimit(i[1], i[2], i[3])
    \/ \E a \in ApplyInputs : Quiet /\ ApplyFind(1, a[1], a[2], a[3], a[4])
    \/ ApplySave(1)
    \/ ApplyReturn(1)
    \/ \E id \in 1..MaxLimits, valor \in GastoInputs : Quiet /\ AdicionarGasto(id, valor)
    \/ \E id \in 1..MaxLimits : Quiet /\ ResetLoad(id)
    \/ Resetar
    \/ ResetSave
    \/ ResetReturn

SpecAmounts == Init /\ [][NextAmounts]_vars

(***************************************************************************)
(* Sessions: logins, refreshes with any token that was or could have been  *)
(* issued, with an access token or with a token that another secret        *)
(* signed, logouts and changes of password, over seconds and days.         *)
(***************************************************************************)
\* the refresh tokens that the server signs in the seconds of the model
IssuedTokens ==
    { generateRefreshToken(u, Date(d, sec * 1000)) :
        u \in Users,
        d \in {Start.day} \cup { Start.day + n : n \in DaySteps },
        sec \in 0..(MaxSeconds + 1) }

\* what a client may present: those, an access token (no tokenType) and a
\* token of another secret
PresentedTokens ==
    IssuedTokens
      \cup { [generateRefreshToken("u1", Start) EXCEPT !.tokenType = Null],
             [generateRefreshToken("u1", Start) EXCEPT !.signed = FALSE] }

NextAuth ==
    \/ TickSecond
    \/ \E n \in DaySteps : TickDays(n)
    \/ \E u \in Users, p \in {"p1", "p2"} : Login(u, p)
    \/ \E t \in PresentedTokens : RefreshTokens(t)
    \/ \E u \in Users : LogoutAll(u)
    \/ \E p \in {"p1", "p2"}, q \in {"p1", "p2"} : ChangePassword("u1", p, q)

SpecAuth == InitBudget /\ [][NextAuth]_vars

(***************************************************************************)
(* Upserts on category limits that exist, active or not, and that have     *)
(* accrued expenses, some days after their last reset.                     *)
(***************************************************************************)
LimiteCategoriaInativa ==
    [Saved(LimitDoc("u1", "Mercado", "categoria", 20000, "semanal", "c1", Null, Date(20, 0)))
        EXCEPT !.ativo = FALSE]

InitUpsert ==
    /\ limits \in { <<LimiteGeral, LimiteCategoria>>,
                     <<LimiteCategoriaInativa, LimiteGeral>>,
                     <<LimiteSalario, LimiteCategoria>> }
    /\ InitCommon

ExistingInputs ==
    { <<"u1", "c1", 300000>>, <<"u1", "c1", 250006>>, <<"u1", "c2", 300000>>,
      <<"u2", "c3", 300000>> }

NextUpsert ==
    \/ \E n \in DaySteps : TickDays(n)
    \/ \E a \in ApplyInputs : Quiet /\ ApplyFind(1, a[1], a[2], a[3], a[4])
    \/ ApplySave(1)
    \/ ApplyReturn(1)
    \/ \E id \in 1..MaxLimits : Quiet /\ AdicionarGasto(id, 50000)
    \/ \E i \in ExistingInputs : Quiet /\ UpsertCategoryLimit(i[1], i[2], i[3])

SpecUpsert == InitUpsert /\ [][NextUpsert]_vars

(***************************************************************************)
(* Sweeps that reset the limits of findToReset(), one after the other,     *)
(* between accruals and upserts and under a running clock.                 *)
(***************************************************************************)
NextSweep ==
    \/ TickMs
    \/ \E n \in DaySteps : TickDays(n)
    \/ \E a \in ApplyInputs : Quiet /\ ApplyFind(1, a[1], a[2], a[3], a[4])
    \/ ApplySave(1)
    \/ ApplyReturn(1)
    \/ Quiet /\ UpsertCategoryLimit("u1", "c1", 300000)
    \/ Quiet /\ SweepFind
    \/ SweepReset
    \/ SweepReturn

SpecSweep == Init /\ [][NextSweep]_vars

(***************************************************************************)
(* A caller of resetar() and a call of updateFromTransactions running at   *)
(* once: the load, the assignments and the save of the one interleave      *)
(* with the find and the saves of the other.                               *)
(***************************************************************************)
NextResetRace ==
    \/ \E a \in ApplyInputs : ApplyFind(1, a[1], a[2], a[3], a[4])
    \/ ApplySave(1)
    \/ ApplyReturn(1)
    \/ \E id \in 1..MaxLimits : ResetLoad(id)
    \/ Resetar
    \/ ResetSave
    \/ ResetReturn

SpecResetRace == Init /\ [][NextResetRace]_vars

(***************************************************************************)
(* Transactions are recorded, changed and deleted while the limits accrue  *)
(* expenses through updateFromTransactions.                                *)
(***************************************************************************)
NextRollback ==
    \/ \E t \in TxInputs : CreateTransaction(t[1], t[2], t[3], t[4], t[5], Null, t[6])
    \/ \E a \in ApplyInputs : ApplyFind(1, a[1], a[2], a[3], a[4])
    \/ ApplySave(1)
    \/ ApplyReturn(1)
    \/ \E u \in Users, id \in 1..MaxTx, a \in UpdateInputs :
          UpdateTransaction(u, id, a[1], a[2])
    \/ \E u \in Users, id \in 1..MaxTx : DeleteTransaction(u, id)

SpecRollback == InitBudget /\ [][NextRollback]_vars

(***************************************************************************)
(* updateFromTransactions over limits of every kind, among them a card     *)
(* limit and a category limit saved without a card or a category (the      *)
(* schema's default for the four references is null and none is required). *)
(***************************************************************************)
LimitePeriodo ==
    Saved(LimitDoc("u1", "Ferias", "periodo", 5000, "mensal", Null, Null, Date(0, 0)))

LimiteSemCartao ==
    Saved(LimitDoc("u1", "Cartoes", "cartao", 50000, "mensal", Null, Null, Date(0, 0)))

LimiteSemCategoria ==
    Saved(LimitDoc("u1", "Categorias", "categoria", 50000, "mensal", Null, Null, Date(0, 0)))

InitFrame ==
    /\ limits \in { <<LimiteGeral, LimiteCategoria, LimiteSalario, LimiteCartao>>,
                     <<LimitePeriodo, LimiteInativo, LimiteOutro, LimiteGeral>>,
                     <<LimiteGeral, LimiteSemCartao, LimiteCartao>>,
                     <<LimiteSemCategoria, LimiteCategoria>> }
    /\ InitCommon

FrameInputs ==
    ApplyInputs \cup { <<"u1", "c1", Null, 80000>>, <<"u1", Null, "k1", 80000>> }

NextFrame ==
    \/ \E a \in FrameInputs : ApplyFind(1, a[1], a[2], a[3], a[4])
    \/ ApplySave(1)
    \/ ApplyReturn(1)

SpecFrame == InitFrame /\ [][NextFrame]_vars

(***************************************************************************)
(* Two updateFromTransactions calls running at once, each once: their      *)
(* finds and saves interleave in every order.                              *)
(***************************************************************************)
NextRace ==
    \/ \E p \in Procs, a \in ApplyInputs : ApplyFind(p, a[1], a[2], a[3], a[4])
    \/ \E p \in Procs : ApplySave(p)

SpecRace == Init /\ [][NextRace]_vars

(***************************************************************************)
(* Properties.                                                             *)
(***************************************************************************)
\* an updateFromTransactions call has returned or thrown
Finished(p) == apply[p].pc \in {"done", "failed"}

\* C1: when updateFromTransactions(owner, categoryId, cardId, amount) has
\* ended, every limit its query matched holds the accrued amount it had plus
\* abs(amount), each independently of the others.
C1_EveryMatchAccrued ==
    \A p \in Procs :
        Finished(p) =>
            \A k \in 1..Len(apply[p].found) :
                LET e == apply[p].found[k]
                IN  /\ e.id \in DOMAIN limits
                    /\ limits[e.id].valorGasto =
                           e.doc.valorGasto + RoundCents(Abs(apply[p].valor))

\* C2: every step that records an expense transaction adds its amount to the
\* accrued amount of every active limit of the owner that matches it.
C2_RecordingAccrues ==
    [][ \A x \in (DOMAIN transactions') \ (DOMAIN transactions) :
          LET t == transactions'[x]
          IN  t.tipo = "despesa" =>
                \A id \in DOMAIN limits :
                    applies(limits[id], t.user, t.categoria, t.cartao) =>
                        /\ id \in DOMAIN limits'
                        /\ limits'[id].valorGasto = limits[id].valorGasto + Abs(t.valor)
      ]_vars

\* C3: when two concurrent updateFromTransactions calls with amounts a and b
\* have both completed, a limit both matched holds its previous accrued
\* amount (the least either call read) plus abs(a) plus abs(b).
C3_NoLostUpdate ==
    (apply[1].pc = "done" /\ apply[2].pc = "done") =>
        \A i \in 1..Len(apply[1].found), j \in 1..Len(apply[2].found) :
            LET e == apply[1].found[i]
                f == apply[2].found[j]
            IN  e.id = f.id =>
                    limits[e.id].valorGasto =
                        Min(e.doc.valorGasto, f.doc.valorGasto)
                            + RoundCents(Abs(apply[1].valor))
                            + RoundCents(Abs(apply[2].valor))

\* C4: the sweep's query returns exactly the active limits whose next reset,
\* the last reset plus the period, is not after the clock's reading.
C4_FindDueExact ==
    \A id \in DOMAIN limits :
        id \in findToReset(now) <=>
            (limits[id].ativo /\ DateLte(proximoResetCalculado(limits[id]), now))

\* the days from a last reset to the next one
PeriodDays(l) ==
    LET n == l.ultimoReset.day
    IN  CASE l.periodo = "diario"  -> {1}
          [] l.periodo = "semanal" -> {7}
          [] l.periodo = "mensal"  -> {DaysInMonth(getFullYear(n), getMonth(n))}
          [] l.periodo = "anual"   -> {365, 366}

\* a step that is a call of resetar() on the document the caller holds
ResetarStep == rst.pc = "loaded" /\ rst'.pc = "saving"

\* what resetar() leaves on the document: nothing accrued, the clock's
\* reading as last reset, and the next reset one period later
ResetEffect ==
    /\ rst'.doc.valorGasto = 0
    /\ rst'.doc.ultimoReset = now
    /\ rst'.doc.proximoReset.ms = now.ms
    /\ (rst'.doc.proximoReset.day - now.day) \in PeriodDays(rst'.doc)

C6_DerivedState ==
    \A id \in DOMAIN limits :
        LET l == limits[id]
            p == percentualUsado(l)
        IN  (l.valorLimite > 0 /\ l.valorGasto >= 0) =>
                /\ p.den > 0
                /\ 0 <= p.num
                /\ p.num <= 100 * p.den
                /\ (l.valorGasto <= l.valorLimite =>
                        /\ p.num = 100 * l.valorGasto
                        /\ p.den = l.valorLimite
                        /\ valorRestante(l) = l.valorLimite - l.valorGasto)
                /\ (l.valorGasto > l.valorLimite =>
                        /\ p.num = 100 * p.den
                        /\ valorRestante(l) = 0)
                /\ (excedido(l) <=> l.valorGasto > l.valorLimite)

\* a limit with a positive ceiling that has accrued more than it
C6_PastCeiling ==
    \E id \in DOMAIN limits :
        limits[id].valorLimite > 0 /\ limits[id].valorGasto > limits[id].valorLimite

\* C7: for a limit whose ceiling is 0 the percentage used is 0 and the
\* status is normal, whatever has accrued.
C7_ZeroCeiling ==
    \A id \in DOMAIN limits :
        LET l == limits[id]
        IN  l.valorLimite = 0 =>
                /\ percentualUsado(l).num = 0
                /\ percentualUsado(l).den > 0
                /\ status(l) = "normal"

\* a limit with ceiling 0 on which an expense has accrued
C7_ZeroCeilingAccrued ==
    \E id \in DOMAIN limits :
        limits[id].valorLimite = 0 /\ limits[id].valorGasto > 0

\* the entries of the last response, when it is a budget view
ViewEntries ==
    IF res.op = "getCategoryLimits" THEN { res.data[c] : c \in DOMAIN res.data }
    ELSE IF res.op = "upsertCategoryLimit" /\ res.status = 201 THEN { res.data }
    ELSE {}

\* n is spent / budget * 100 rounded to the nearest integer, halves up
IsRoundedShare(n, spent, budget) ==
    /\ 2 * n * budget <= 200 * spent + budget
    /\ 2 * n * budget > 200 * spent - budget

\* C8: each entry of getCategoryLimits carries the ceiling of the category's
\* active limit as budget, remaining = max(0, budget - spent), percentage =
\* round(spent / budget * 100) for a positive budget and 0 otherwise, and the
\* status exceeded from 100, warning from 80, safe below.
C8_BudgetView ==
    res.op = "getCategoryLimits" =>
        \A c \in DOMAIN res.data :
            LET e  == res.data[c]
                ls == { id \in DOMAIN limits :
                          /\ limits[id].user = res.user
                          /\ limits[id].tipo = "categoria"
                          /\ limits[id].ativo
                          /\ limits[id].categoria = c }
            IN  /\ Categories[c].user = res.user
                /\ Categories[c].tipo = "despesa"
                /\ \A id \in ls : e.budget = limits[id].valorLimite
                /\ (ls = {} => e.budget = 0)
                /\ (e.spent <= e.budget => e.remaining = e.budget - e.spent)
                /\ (e.spent > e.budget => e.remaining = 0)
                /\ (e.budget > 0 => IsRoundedShare(e.percentage, e.spent, e.budget))
                /\ (e.budget = 0 => e.percentage = 0)
                /\ (e.percentage >= 100 => e.status = "exceeded")
                /\ (e.percentage >= 80 /\ e.percentage < 100 => e.status = "warning")
                /\ (e.percentage < 80 => e.status = "safe")

\* the view of budget 500.00 with expenses of 150.00 and 200.00
C8_Scenario ==
    /\ res.op = "getCategoryLimits"
    /\ \E c \in DOMAIN res.data :
          /\ res.data[c].budget = 50000
          /\ res.data[c].spent = 35000
          /\ res.data[c].transactions = 2
          /\ res.data[c].remaining = 15000
          /\ res.data[c].percentage = 70
          /\ res.data[c].status = "safe"

InMonth(d, agora) ==
    /\ getFullYear(d.day) = getFullYear(agora.day)
    /\ getMonth(d.day) = getMonth(agora.day)

\* C10: spent and the transaction count of a category in getCategoryLimits
\* are the sum and the number of the owner's confirmed expense transactions
\* of that category dated within the current calendar month.
C10_OnlyConfirmedInMonth ==
    res.op = "getCategoryLimits" =>
        \A c \in DOMAIN res.data :
            LET ids == { x \in DOMAIN transactions :
                           /\ transactions[x].user = res.user
                           /\ transactions[x].tipo = "despesa"
                           /\ transactions[x].status = "confirmada"
                           /\ transactions[x].categoria = c
                           /\ InMonth(transactions[x].data, now) }
            IN  /\ res.data[c].spent = SumValor(ids)
                /\ res.data[c].transactions = Cardinality(ids)

\* the active category limits of a user that refer to a category
LimitsOn(userId, c) ==
    { id \in DOMAIN limits :
        /\ limits[id].user = userId
        /\ limits[id].tipo = "categoria"
        /\ limits[id].ativo
        /\ (limits[id].categoria = c \/ limits[id].categoriaId = c) }

\* C11: getCategoryLimits answers with one entry for each category of type
\* despesa that the user owns and none for any other category; a category
\* on which the user has no active category limit has budget 0, percentage
\* 0 and status safe.
C11_OnePerExpenseCategory ==
    res.op = "getCategoryLimits" =>
        /\ DOMAIN res.data =
               { c \in CategoryIds :
                   Categories[c].user = res.user /\ Categories[c].tipo = "despesa" }
        /\ \A c \in DOMAIN res.data :
               LimitsOn(res.user, c) = {} =>
                   /\ res.data[c].budget = 0
                   /\ res.data[c].percentage = 0
                   /\ res.data[c].status = "safe"

\* the view of a user who owns an income category and an expense category
\* with expenses on it but no limit
C11_NoLimitCategory ==
    /\ res.op = "getCategoryLimits"
    /\ res.user = "u1"
    /\ Categories["c2"].user = "u1"
    /\ "c2" \notin DOMAIN res.data
    /\ "c1" \in DOMAIN res.data
    /\ LimitsOn("u1", "c1") = {}
    /\ res.data["c1"].budget = 0
    /\ res.data["c1"].spent > 0
    /\ res.data["c1"].status = "safe"

\* cents is the amount of mils rounded to two decimals
IsRoundedCents(cents, mils) ==
    /\ 10 * cents - 5 <= mils
    /\ mils < 10 * cents + 5

\* C12: a successful upsertCategoryLimit(owner, categoriaId, valor) on an
\* expense category of the owner answers with budget = valor (to two
\* decimals), and the getCategoryLimits of the owner that follows it reports
\* the same budget for that category.
C12_RoundTrip ==
    [][ /\ (res'.op = "upsertCategoryLimit" /\ res'.status = 201) =>
              /\ IsRoundedCents(res'.data.budget, res'.valor)
              /\ (res'.valor % 10 = 0 => 10 * res'.data.budget = res'.valor)
        /\ ( /\ res.op = "upsertCategoryLimit"
             /\ res.status = 201
             /\ res'.op = "getCategoryLimits"
             /\ res'.user = res.user
             /\ res.categoriaId \in CategoryIds
             /\ Categories[res.categoriaId].user = res.user
             /\ Categories[res.categoriaId].tipo = "despesa" ) =>
                /\ res.categoriaId \in DOMAIN res'.data
                /\ res'.data[res.categoriaId].budget = res.data.budget
                /\ IsRoundedCents(res'.data[res.categoriaId].budget, res.valor)
      ]_vars

\* the view after an upsert of 2500.006 on a category whose limit was 500.00
C12_ViewAfterUpsert ==
    /\ res.op = "getCategoryLimits"
    /\ res.user = "u1"
    /\ res.data["c1"].budget = 25001
    /\ \E id \in DOMAIN limits :
          /\ categoryLimitFilter(limits[id], "u1", "c1")
          /\ limits[id].valorLimite = 25001

\* the category limits of a user on a category, in a Limit collection
CategoryLimitsOf(ls, u, c) ==
    { id \in DOMAIN ls :
        /\ ls[id].user = u
        /\ ls[id].tipo = "categoria"
        /\ ls[id].categoria = c }

\* C13: after every step there is at most one category limit for each user
\* and category; a successful upsertCategoryLimit leaves exactly one for its
\* pair, with the request's amount as ceiling, and every other step leaves
\* the ceiling of a pair's limit as it was (or removes the limit).
C13_SingleLimit ==
    [][ \A u \in Users, c \in WellFormedIds :
          LET before == CategoryLimitsOf(limits, u, c)
              after  == CategoryLimitsOf(limits', u, c)
          IN  /\ Cardinality(after) <= 1
              /\ IF /\ res'.op = "upsertCategoryLimit"
                    /\ res'.status = 201
                    /\ res'.user = u
                    /\ res'.categoriaId = c
                 THEN /\ Cardinality(after) = 1
                      /\ \A id \in after :
                            IsRoundedCents(limits'[id].valorLimite, res'.valor)
                 ELSE \A id \in after :
                        /\ id \in before
                        /\ limits'[id].valorLimite = limits[id].valorLimite
      ]_vars

\* a limit that upsertCategoryLimit created after the category's first limit
\* was deleted, and then replaced: one document, the last amount
C13_Recreated ==
    /\ res.op = "upsertCategoryLimit"
    /\ res.status = 201
    /\ res.user = "u1"
    /\ res.categoriaId = "c1"
    /\ res.valor = 300000
    /\ Cardinality(CategoryLimitsOf(limits, "u1", "c1")) = 1
    /\ \A id \in CategoryLimitsOf(limits, "u1", "c1") :
          /\ limits[id].nome = Null
          /\ limits[id].valorLimite = 30000

\* C14: an upsertCategoryLimit request with a missing or zero or negative
\* valor, or with a missing or malformed categoriaId, is answered with 400
\* and leaves the Limit collection as it was.
C14_RejectsInvalid ==
    [][ ( /\ res'.op = "upsertCategoryLimit"
          /\ \/ res'.valor <= 0
             \/ res'.categoriaId = Null
             \/ res'.categoriaId \notin ObjectIds ) =>
            /\ res'.status = 400
            /\ limits' = limits
      ]_vars

\* a request with a negative valor was rejected while limits exist
C14_NegativeRejected ==
    /\ res.op = "upsertCategoryLimit"
    /\ res.status = 400
    /\ res.valor < 0
    /\ res.categoriaId \in CategoryIds
    /\ CategoryLimitsOf(limits, res.user, res.categoriaId) # {}

\* the category with this id exists and belongs to the user
OwnsCategory(u, c) == c \in CategoryIds /\ Categories[c].user = u

\* C15: an upsertCategoryLimit request with a positive valor and a
\* well-formed categoriaId that is the id of no category of the user is
\* answered with 404 and leaves the Limit collection as it was.
C15_UnknownCategoryNotFound ==
    [][ ( /\ res'.op = "upsertCategoryLimit"
          /\ res'.valor > 0
          /\ res'.categoriaId \in ObjectIds
          /\ ~OwnsCategory(res'.user, res'.categoriaId) ) =>
            /\ res'.status = 404
            /\ limits' = limits
      ]_vars

\* C16: when deleteCategoryLimit(owner, categoryName) has answered with
\* success, the owner has no category limit on a category of their own with
\* that name, whatever categories the other users have, and the limits of
\* the other users are as they were.
C16_DeleteOwnLimit ==
    [][ (res'.op = "deleteCategoryLimit" /\ res'.status = 200) =>
            /\ \A c \in CategoryIds :
                  ( /\ Categories[c].user = res'.user
                    /\ Categories[c].nome = res'.categoryName ) =>
                        CategoryLimitsOf(limits', res'.user, c) = {}
            /\ \A id \in DOMAIN limits :
                  limits[id].user # res'.user =>
                      /\ id \in DOMAIN limits'
                      /\ limits'[id] = limits[id]
      ]_vars

\* C17: a getTransactionById, updateTransaction or deleteTransaction request
\* of a user leaves every transaction of every other user in the collection
\* as it was, and does not answer with another user's transaction.
C17_LedgerOwnerScoped ==
    [][ res'.op \in {"getTransactionById", "updateTransaction", "deleteTransaction"} =>
            /\ \A x \in DOMAIN transactions :
                  transactions[x].user # res'.user =>
                      /\ x \in DOMAIN transactions'
                      /\ transactions'[x] = transactions[x]
            /\ ( /\ res'.id \in DOMAIN transactions
                 /\ transactions[res'.id].user # res'.user ) =>
                    res'.status # 200
      ]_vars

\* the user's confirmed transactions dated in a month (1..12) of a year
ConfirmedIn(u, ano, mes) ==
    { x \in DOMAIN transactions :
        /\ transactions[x].user = u
        /\ transactions[x].status = "confirmada"
        /\ getFullYear(transactions[x].data.day) = ano
        /\ getMonth(transactions[x].data.day) + 1 = mes }

\* C18: the cash-flow report of a year has 12 entries, for the months 1..12
\* in this order; a month without confirmed transactions has receitas,
\* despesas and saldo 0; each saldo is receitas - despesas; saldoAcumulado of
\* a month is the sum of the saldo of the months up to it; for a year
\* without transactions all entries and the accumulated saldo are 0.
C18_CashFlowReport ==
    res.op = "generateCashFlowReport" =>
        LET f == res.data.fluxoMensal
        IN  /\ res.status = 200
            /\ DOMAIN f = 1..12
            /\ \A m \in 1..12 :
                  /\ f[m].mes = m
                  /\ f[m].saldo = f[m].receitas - f[m].despesas
                  /\ f[m].saldoAcumulado =
                         (IF m = 1 THEN 0 ELSE f[m - 1].saldoAcumulado) + f[m].saldo
                  /\ ConfirmedIn(res.user, res.data.ano, m) = {} =>
                         /\ f[m].receitas = 0
                         /\ f[m].despesas = 0
                         /\ f[m].saldo = 0
            /\ (\A m \in 1..12 : ConfirmedIn(res.user, res.data.ano, m) = {}) =>
                  \A m \in 1..12 : f[m].saldoAcumulado = 0

\* the report of 2024 with an income of 2000.00 and an expense of 1500.00
\* in January and nothing in the other months
C18_JanuaryOnly ==
    /\ res.op = "generateCashFlowReport"
    /\ res.user = "u1"
    /\ res.data.ano = 2024
    /\ res.data.fluxoMensal[1].receitas = 20000
    /\ res.data.fluxoMensal[1].despesas = 15000
    /\ res.data.fluxoMensal[2].saldo = 0
    /\ res.data.fluxoMensal[12].saldoAcumulado = 5000

\* the transactions that a step creates, changes or deletes
Touched ==
    { x \in DOMAIN transactions \cup DOMAIN transactions' :
        \/ x \notin DOMAIN transactions
        \/ x \notin DOMAIN transactions'
        \/ transactions'[x] # transactions[x] }

\* the ranges of dates the reports are asked for: none, January 2024, and
\* 2023-12-01 to 2024-03-31
ReportRanges ==
    { <<NullDate, NullDate>>,
      <<Date(0, 0), Date(30, MsLastSecond)>>,
      <<Date(0 - 31, 0), Date(90, 0)>> }

\* the output of every report on a Transaction collection
Reports(txs) ==
    [ u \in Users |->
        [ resumo |-> [ r \in ReportRanges |->
                         getFinancialSummary(txs, u, r[1], r[2]) ],
          fluxo  |-> [ ano \in ReportYears |-> generateCashFlowReport(txs, u, ano) ],
          categorias |-> [ r \in ReportRanges |-> getByCategory(txs, u, r[1], r[2]) ],
          top    |-> [ r \in ReportRanges |-> getTopCategories(txs, u, r[1], r[2]) ],
          evolucao |-> [ r \in ReportRanges \ {<<NullDate, NullDate>>} |->
                           getMonthlyEvolution(txs, u, r[1], r[2]) ] ] ]

\* C19: a step that creates, changes or deletes only transactions whose
\* status is pendente or cancelada (before and after the step) leaves the
\* financial summary, the cash-flow report, the category breakdown, the top
\* categories and the monthly evolution of every user as they were.
C19_OnlyConfirmedCounts ==
    [][ ( /\ Touched # {}
          /\ \A x \in Touched :
                /\ (x \in DOMAIN transactions => transactions[x].status # "confirmada")
                /\ (x \in DOMAIN transactions' => transactions'[x].status # "confirmada") ) =>
          Reports(transactions') = Reports(transactions)
      ]_vars

\* a pending expense was recorded next to a confirmed one that the reports
\* count
C19_PendingRecorded ==
    /\ res.op = "createTransaction"
    /\ res.data.status = "pendente"
    /\ \E x \in DOMAIN transactions : transactions[x] = res.data
    /\ \E x \in DOMAIN transactions :
          /\ transactions[x].status = "confirmada"
          /\ transactions[x].user = res.data.user
    /\ getFinancialSummary(transactions, res.data.user, NullDate, NullDate).totalTransacoes = 1

\* the calendar months counted from year 0
MonthIndex(ano, mes) == ano * 12 + mes - 1

\* C20: for startDate <= endDate getMonthlyEvolution returns one entry for
\* each calendar month from the month of startDate to the month of endDate,
\* in this order, none left out and none twice.
C20_EveryMonthOnce ==
    (res.op = "getMonthlyEvolution" /\ DateLte(res.startDate, res.endDate)) =>
        LET first == MonthIndex(getFullYear(res.startDate.day),
                                getMonth(res.startDate.day) + 1)
            last  == MonthIndex(getFullYear(res.endDate.day),
                                getMonth(res.endDate.day) + 1)
        IN  /\ Len(res.data) = last - first + 1
            /\ \A k \in 1..Len(res.data) :
                  MonthIndex(res.data[k].ano, res.data[k].mes) = first + k - 1

\* the three series of a cash flow
FlowFields == {"receitas", "despesas", "saldo"}

\* the values of field f over the months of fluxoCaixa
Serie(fluxoCaixa, f) == [k \in 1..Len(fluxoCaixa) |-> fluxoCaixa[k][f]]

\* C21: every percentage-style computation yields 0, never NaN or Infinity,
\* when its denominator is 0: the limit's percentualUsado with a ceiling
\* of 0, the card usage with a card limit of 0, the category report's
\* percentualDoTotal and mediaTransacao with a total or a count of 0, the
\* comparison's variacao with a previous value of 0, and the percentage
\* behind a trend (and so the trend, 'estavel' as for 0) with a first value
\* of 0
C21_ZeroDenominatorYieldsZero ==
    /\ \A id \in DOMAIN limits :
          limits[id].valorLimite = 0 => percentualUsado(limits[id]) = Pct(0, 1)
    /\ res.op = "getCardExpensesSummary" =>
          \A k \in DOMAIN res.data :
             res.data[k].limite = 0 =>
                IsZero(res.data[k].percentualUsado) /\ IsZero(res.data[k].virtual)
    /\ res.op = "generateCategoryReport" =>
          \A c \in DOMAIN res.data.categorias :
             /\ res.data.categorias[c].quantidadeTransacoes = 0 =>
                   IsZero(res.data.categorias[c].mediaTransacao)
             /\ res.data.totalGeral = 0 =>
                   IsZero(res.data.categorias[c].percentualDoTotal)
    /\ res.op = "getComparison" =>
          \A f \in FlowFields :
             res.data.periodoAnterior.resumo[f] = 0 => IsZero(res.data.variacao[f])
    /\ (res.op = "getFinancialTrends" /\ Len(res.data.fluxoCaixa) >= 2) =>
          \A f \in FlowFields :
             res.data.fluxoCaixa[1][f] = 0 =>
                /\ IsZero(diferenca(Serie(res.data.fluxoCaixa, f)))
                /\ res.data.tendencias[f] = "estavel"
\* the tiers of the limit status, lowest first
Tiers == <<"normal", "atencao", "alerta", "critico", "excedido">>

TierRank(s) == CHOOSE k \in 1..Len(Tiers) : Tiers[k] = s

\* the tier of an accrued amount under a positive ceiling, by the amounts
TierOf(valorGasto, valorLimite) ==
    IF valorGasto >= valorLimite THEN "excedido"
    ELSE IF 10 * valorGasto >= 9 * valorLimite THEN "critico"
    ELSE IF 4 * valorGasto >= 3 * valorLimite THEN "alerta"
    ELSE IF 2 * valorGasto >= valorLimite THEN "atencao"
    ELSE "normal"

\* C22: the status of a limit is the highest tier whose threshold its
\* percentUsed reaches (100 excedido, 90 critico, 75 alerta, 50 atencao,
\* else normal), exactly one tier, and while the ceiling stays the same
\* positive amount the tier never goes down as the accrued amount grows
C22_StatusTiers ==
    /\ [](\A id \in DOMAIN limits :
            /\ \E k \in 1..Len(Tiers) : status(limits[id]) = Tiers[k]
            /\ limits[id].valorLimite > 0 =>
                  status(limits[id]) = TierOf(limits[id].valorGasto, limits[id].valorLimite)
            /\ limits[id].valorLimite = 0 => status(limits[id]) = "normal")
    /\ [][\A id \in DOMAIN limits :
            ( /\ limits[id].valorLimite > 0
              /\ limits'[id].valorLimite = limits[id].valorLimite
              /\ limits'[id].valorGasto >= limits[id].valorGasto )
            => TierRank(status(limits'[id])) >= TierRank(status(limits[id]))]_vars

\* a limit with a positive ceiling stands in the critico tier after an accrual
C22_Critical ==
    /\ apply[1].pc = "done"
    /\ limits[1].valorLimite > 0
    /\ status(limits[1]) = "critico"
\* day d of month m (which may be 12, January of the next year) of year y,
\* or the last day of that month when it has fewer than d days
ClampedDay(y, m, d) ==
    LET yy == y + (m \div 12)
        mm == m % 12
    IN  MakeDay(yy, mm, IF d <= DaysInMonth(yy, mm) THEN d ELSE DaysInMonth(yy, mm))

\* lastReset plus the period's offset, the day of the month clamped
ClampedNextReset(ultimoReset, periodo) ==
    LET n == ultimoReset.day
        y == getFullYear(n)
        m == getMonth(n)
        d == getDate(n)
    IN  CASE periodo = "diario"  -> Date(n + 1, ultimoReset.ms)
          [] periodo = "semanal" -> Date(n + 7, ultimoReset.ms)
          [] periodo = "mensal"  -> Date(ClampedDay(y, m + 1, d), ultimoReset.ms)
          [] periodo = "anual"   -> Date(ClampedDay(y + 1, m, d), ultimoReset.ms)

\* C23: the nextReset that a reset computes is lastReset plus the period's
\* offset: one day, seven days, the same day of the next month clamped to
\* that month's length (January 31st gives the last day of February, never
\* March), or the same day of the next year clamped likewise
C23_NextResetClamped ==
    rst.pc = "saving" =>
        rst.doc.proximoReset = ClampedNextReset(rst.doc.ultimoReset, rst.doc.periodo)
\* the limit l is one that the claim lets an expense of userId with
\* categoriaId and cartaoId (null when it carries none) increment
MatchesExpense(l, userId, categoriaId, cartaoId) ==
    /\ l.user = userId
    /\ l.ativo
    /\ \/ l.tipo = "geral"
       \/ l.tipo = "categoria" /\ categoriaId # Null /\ l.categoriaId = categoriaId
       \/ l.tipo = "cartao" /\ cartaoId # Null /\ l.cartaoId = cartaoId

\* C24: updateFromTransactions changes the accrued amount of no limit other
\* than the matching ones: limits of other owners, inactive limits, period
\* limits and category or card limits with another reference keep theirs,
\* and an expense without a category or without a card increments no
\* category limit or no card limit
C24_OnlyMatchingChange ==
    [][\A id \in DOMAIN limits :
          limits'[id].valorGasto # limits[id].valorGasto =>
             MatchesExpense(limits[id], apply[1].userId,
                            apply[1].categoriaId, apply[1].cartaoId)]_vars
\* C25: there is no rollback: a call of updateTransaction or of
\* deleteTransaction leaves the accrued amount of every limit as it was
C25_NoRollback ==
    [][(res' # res /\ res'.op \in {"updateTransaction", "deleteTransaction"}) =>
          /\ DOMAIN limits' = DOMAIN limits
          /\ \A id \in DOMAIN limits : limits'[id].valorGasto = limits[id].valorGasto]_vars

\* an expense of u1 was deleted after the limits had accrued, and the
\* accrued amount is still there
C25_DeletedAfterAccrual ==
    /\ res.op = "deleteTransaction"
    /\ res.status = 200
    /\ res.user = "u1"
    /\ \E id \in DOMAIN limits : limits[id].user = "u1" /\ limits[id].valorGasto > 0
\* C26: after any sequence of upsertCategoryLimit, updateFromTransactions
\* (amounts of either sign), adicionarGasto and resetar every stored limit
\* has an accrued amount of 0 or more, every limit that upsertCategoryLimit
\* created or updated has a ceiling above 0, and an adicionarGasto that
\* would make the accrued amount negative fails and leaves the stored limit
\* as it was
C26_AmountsStayValid ==
    /\ [](\A id \in DOMAIN limits : limits[id].valorGasto >= 0)
    /\ [][(res' # res /\ res'.op = "upsertCategoryLimit" /\ res'.status = 201) =>
             limits'[res'.id].valorLimite > 0]_vars
    /\ [][( /\ res' # res
            /\ res'.op = "adicionarGasto"
            /\ limits[res'.id].valorGasto * 10 + res'.valor <= 0 - 5 ) =>
             res'.status = 500 /\ limits' = limits]_vars
\* the save of updateFromTransactions on the limit id is about to run, and
\* a resetar() was saved on that limit after the find
SavesOverReset(id) ==
    /\ apply[1].pc = "saving"
    /\ apply[1].found[apply[1].i].id = id
    /\ id \in DOMAIN limits
    /\ apply[1].found[apply[1].i].doc.ultimoReset # limits[id].ultimoReset

\* C27: when resetar() on a limit runs at once with an
\* updateFromTransactions of amount a that matches the limit, then in every
\* interleaving the limit's accrued amount after both is 0 or abs(a): the
\* amount accrued before the reset is never stored with the new ultimoReset
C27_ResetRace ==
    [][\A id \in DOMAIN limits :
          (SavesOverReset(id) /\ apply'[1] # apply[1] /\ apply'[1].pc # "failed") =>
             limits'[id].valorGasto \in {0, RoundCents(Abs(apply[1].valor))}]_vars
\* C28: the sweep converges: the proximoReset that a reset stores is
\* strictly later than its ultimoReset for every period, so a limit that
\* was reset at t is not among findToReset() at t, and once a sweep has
\* reset every limit that findToReset() returned, findToReset() at the
\* sweep's time returns no limit
C28_SweepConverges ==
    /\ rst.pc \in {"sweeping", "swept"} =>
          \A k \in 1..(rst.i - 1) :
             LET l == limits[rst.due[k].id]
             IN  /\ DateLt(l.ultimoReset, l.proximoReset)
                 /\ ~DateLte(l.proximoReset, l.ultimoReset)
                 /\ rst.due[k].id \notin findToReset(l.ultimoReset)
                 /\ rst.due[k].id \notin findToReset(rst.at)
    /\ rst.pc = "swept" => findToReset(rst.at) = {}

\* a sweep has reset two limits that were due, 32 days on
C28_TwoSwept ==
    /\ rst.pc = "swept"
    /\ Len(rst.due) = 2
    /\ rst.at.day > Start.day
    /\ \A k \in 1..2 : limits[rst.due[k].id].ultimoReset.day = rst.at.day
\* the fields of a limit that an upsert may write
UpsertFields == {"valorLimite", "categoria", "categoriaId", "ativo"}

\* C29: upsertCategoryLimit on a category limit that exists, active or not,
\* changes only its ceiling, its category reference and its active flag,
\* which becomes true; its accrued amount, ultimoReset, proximoReset and
\* periodo stay as they were, and no other limit is changed or created
C29_UpsertFrame ==
    [][( /\ res' # res
         /\ res'.op = "upsertCategoryLimit"
         /\ res'.status = 201
         /\ CategoryLimitsOf(limits, res'.user, res'.categoriaId) # {} ) =>
           /\ res'.id \in CategoryLimitsOf(limits, res'.user, res'.categoriaId)
           /\ DOMAIN limits' = DOMAIN limits
           /\ \A id \in DOMAIN limits \ {res'.id} : limits'[id] = limits[id]
           /\ \A f \in DOMAIN limits[res'.id] \ UpsertFields :
                 limits'[res'.id][f] = limits[res'.id][f]
           /\ limits'[res'.id].valorLimite = RoundCents(res'.valor)
           /\ limits'[res'.id].categoria = res'.categoriaId
           /\ limits'[res'.id].categoriaId = res'.categoriaId
           /\ limits'[res'.id].ativo
           /\ limits'[res'.id].valorGasto = limits[res'.id].valorGasto
           /\ limits'[res'.id].ultimoReset = limits[res'.id].ultimoReset
           /\ limits'[res'.id].proximoReset = limits[res'.id].proximoReset
           /\ limits'[res'.id].periodo = limits[res'.id].periodo]_vars

\* an inactive weekly category limit that had accrued 50.00 was upserted 32
\* days on: it is active, with the new ceiling and its accrued amount
C29_Reactivated ==
    /\ res.op = "upsertCategoryLimit"
    /\ res.status = 201
    /\ now.day > Start.day
    /\ res.id \in DOMAIN limits
    /\ limits[res.id].nome = "Mercado"
    /\ limits[res.id].ativo
    /\ limits[res.id].valorLimite = 25001
    /\ limits[res.id].valorGasto = 5000
    /\ limits[res.id].periodo = "semanal"
\* the token is in the stored list of its user
TokenStored(us, token) ==
    \E k \in 1..Len(us[token.id].refreshTokens) : us[token.id].refreshTokens[k] = token

\* C30: refresh tokens are single-use and revocable: refreshTokens(t)
\* succeeds only while t is in the stored list of its user, takes t out and
\* stores the new token; a second refreshTokens(t) after it fails with
\* 'Refresh token invalido' and changes nothing; after changePassword or
\* logoutAll the list is empty and every refresh token issued before is
\* rejected
C30_SingleUseRevocable ==
    /\ [](res.op = "refreshTokens" /\ res.status = 200 =>
            /\ ~TokenStored(users, res.given)
            /\ TokenStored(users, res.refreshToken)
            /\ ~refreshTokens(users, res.given, now).ok
            /\ refreshTokens(users, res.given, now).error = "Refresh token invalido"
            /\ refreshTokens(users, res.given, now).users = users)
    /\ [](res.op \in {"logoutAll", "changePassword"} /\ res.status = 200 =>
            /\ users[res.user].refreshTokens = <<>>
            /\ \A t \in IssuedTokens :
                  t.id = res.user => ~refreshTokens(users, t, now).ok)
    /\ [][(res' # res /\ res'.op = "refreshTokens" /\ res'.status = 200) =>
             TokenStored(users, res'.given)]_vars
====
